---- MODULE Spec2Model ----
(***************************************************************************)
(* Reconciliation workflow store (services/agno_api/app/storage.py) and    *)
(* the job that fills it (services/agno_api/app/service.py).               *)
(*                                                                         *)
(* The persisted document db.json is the state: runs, decisions,           *)
(* exceptions, monthly_submissions, daily_ops and monthly_close.  Every    *)
(* summary (run x month, daily, monthly close batch) is an operator        *)
(* recomputed from those variables, as the code recomputes it on read.     *)
(* Each Storage handler is one action: it loads, checks its guards on the  *)
(* recomputed summary, mutates and saves; a rejected call leaves the       *)
(* document as it was and only sets the response.                          *)
(*                                                                         *)
(* Timestamps written by now().isoformat() are modelled by the single      *)
(* token Stamp: the handlers only ever test them for presence.             *)
(***************************************************************************)
EXTENDS Integers, Sequences, FiniteSets, TLC

\* Bound: number of distinct merchant references a reconcile result may hold.
MaxRefs == 2

\* Bound: how many times execute_reconciliation may be started in all.
MaxExecutions == 2

\* Audit entries the audit specification records.
MaxAudit == 7

\* uuid4() values available to create_run.
RunIds == {"run-1", "run-2"}

\* Transaction months the matching engine derives (YYYY-MM).
TxnMonths == {"2026-03", "2026-04"}

\* sorted(TxnMonths), and the months of a set in that order.
MonthsInOrder == <<"2026-03", "2026-04">>
SortedMonths(months) == SelectSeq(MonthsInOrder, LAMBDA m : m \in months)

\* Merchant references; their order is the sorted order of the keys.
Refs == 1..MaxRefs

\* Python None, and the value of now().isoformat().
None == "None"
Stamp == "ts"

\* schemas.FinalStatus
GOOD == "good_transaction"
DOUBTFUL == "doubtful_transaction"

\* schemas.RunStatus values the service writes.
DRAFT == "draft"
RUNNING == "running"
COMPLETED == "completed"
FORMAT_FAILED == "format_failed"
FAILED == "failed"

\* Exception states a caller of update_exception_state supplies (any string is
\* accepted; these cover an addressed state and a state outside the addressed set).
ExceptionActions == {"approved", "rejected"}

\* Business dates a caller of set_daily_business_date supplies.
BusinessDates == {"2026-02-03", "03/02/2026"}

VARIABLES
    runs,                 \* data["runs"]: run id -> [status, stage]
    decisions,            \* data["decisions"]: run id -> list of decisions
    exceptions,           \* data["exceptions"]: run id -> list of exception cases
    monthly_submissions,  \* data["monthly_submissions"]: run id -> month -> state
    daily_ops,            \* data["daily_ops"]: run id -> [closed_at, business_date]
    monthly_close,        \* data["monthly_close"]: month -> state
    job,                  \* execute_reconciliation's position, per run
    executions,           \* how many times execute_reconciliation has started
    response,             \* the last handler call: its name and how it ended
    audit_events,         \* data["audit_events"]: the list of audit entries
    audit_recorded,       \* whether the specification records the audit entries
    calls,                \* worker thread -> the handler call it is running
    sources,              \* the three standardized frames reconcile() is given
    validation            \* what reconcile() returned, or that it raised

vars == <<runs, decisions, exceptions, monthly_submissions, daily_ops,
          monthly_close, job, executions, response, audit_events, audit_recorded,
          calls, sources, validation>>

data == <<runs, decisions, exceptions, monthly_submissions, daily_ops, monthly_close>>

\* The worker threads of the thread pool that runs the endpoints.
Threads == {1, 2}

\* A thread that runs no handler.
IdleCall ==
    [pc |-> "idle", op |-> "none", run_id |-> "none", month |-> "none",
     status |-> "none", payload |-> <<>>]

\* How a handler call ends: a value, ValueError (400) or KeyError (404).
OK == "ok"
ValueError == "ValueError"
KeyError == "KeyError"

-----------------------------------------------------------------------------
\* Helpers over finite sets and sequences.

RECURSIVE SumOver(_, _)
SumOver(S, f) ==
    IF S = {} THEN 0
    ELSE LET x == CHOOSE y \in S : TRUE IN f[x] + SumOver(S \ {x}, f)

Indices(s) == 1..Len(s)

-----------------------------------------------------------------------------
\* The values reconcile() can return: one decision per reference, in ascending
\* reference order, each GOOD or DOUBTFUL with its transaction month.

DecisionRecords(months, refs) ==
    [merchant_ref : refs, final_status : {GOOD, DOUBTFUL}, transaction_month : months]

DecisionLists(months, refs) ==
    { s \in UNION { [1..n -> DecisionRecords(months, refs)] : n \in 0..Cardinality(refs) } :
        \A i \in Indices(s), j \in Indices(s) :
            i < j => s[i].merchant_ref < s[j].merchant_ref }

\* reconcile(): one open ExceptionCase per DOUBTFUL decision, in decision order.
\* The id is a fresh uuid in the code; the model names a case by its run and
\* reference.
RECURSIVE ExceptionsFor(_, _)
ExceptionsFor(run_id, ds) ==
    IF ds = <<>> THEN <<>>
    ELSE LET d == Head(ds)
             rest == ExceptionsFor(run_id, Tail(ds))
         IN IF d.final_status = DOUBTFUL
            THEN <<[id |-> <<run_id, d.merchant_ref>>,
                    merchant_ref |-> d.merchant_ref,
                    state |-> "open"]>> \o rest
            ELSE rest

-----------------------------------------------------------------------------
\* Storage._ensure_month_state: the state a month gets when it is first touched.

NewMonthState ==
    [notified_to_source |-> FALSE, journal_created |-> FALSE, submitted_to_erp |-> FALSE,
     notified_at |-> None, journal_created_at |-> None, submitted_at |-> None,
     doubtful_addressed_at |-> None]

\* Mutant: the month's state is created anew on every call.
_ensure_month_state_anew(by_month, month) ==
    [m \in DOMAIN by_month \cup {month} |->
        IF m = month THEN NewMonthState ELSE by_month[m]]

\* Storage._ensure_month_state.
_ensure_month_state(by_month, month) ==
    IF month \in DOMAIN by_month THEN by_month ELSE by_month @@ (month :> NewMonthState)

\* Mutant: a rejected case counts as addressed too.
addressed_states_with_rejected == {"verified", "approved", "resolved", "rejected"}

\* The three states _monthly_index counts as addressed.
addressed_states == {"verified", "approved", "resolved"}

\* exceptions.get(merchant_ref, "open") over the run's exception list; a later
\* entry for the same reference overrides an earlier one (dict comprehension).
ExceptionStateOf(excs, ref) ==
    LET hits == {i \in Indices(excs) : excs[i].merchant_ref = ref}
    IN IF hits = {} THEN "open"
       ELSE excs[CHOOSE i \in hits : \A j \in hits : j <= i].state

\* Storage._monthly_index: per-month counters of one run.
MonthDecisions(ds, month) == {i \in Indices(ds) : ds[i].transaction_month = month}

_monthly_index(ds, excs, month) ==
    LET idx == MonthDecisions(ds, month)
        good == {i \in idx : ds[i].final_status = GOOD}
        doubtful == idx \ good
        addressed == {i \in doubtful :
                        ExceptionStateOf(excs, ds[i].merchant_ref) \in addressed_states}
    IN [total_transactions |-> Cardinality(idx),
        good_transactions |-> Cardinality(good),
        doubtful_transactions |-> Cardinality(doubtful),
        addressed_doubtful |-> Cardinality(addressed),
        unresolved_doubtful |-> Cardinality(doubtful \ addressed)]

\* refs_by_month of _monthly_index.
refs_by_month(ds, month) == {ds[i].merchant_ref : i \in MonthDecisions(ds, month)}

\* Months that have a bucket in a run: stats keys and stored state keys.
StatMonths(ds) == {ds[i].transaction_month : i \in Indices(ds)}

SummaryMonths(run_id) == StatMonths(decisions[run_id]) \cup DOMAIN monthly_submissions[run_id]

\* Mutant: readiness that forgets the month must hold a transaction.
ready_for_submission_no_total(row) == row.unresolved_doubtful = 0

\* ready_for_submission of _build_monthly_summaries_from_data.
ready_for_submission(row) ==
    row.total_transactions > 0 /\ row.unresolved_doubtful = 0

\* Mutant: the journal is asked for whatever the good transactions, as the
\* batch of the monthly close does.
MonthlyNextAction_any_good(row, ready, notified, journal, submitted) ==
    IF submitted THEN "completed"
    ELSE IF ~ready THEN "address_doubtful"
    ELSE IF row.doubtful_transactions > 0 /\ ~notified THEN "notify_sources"
    ELSE IF ~journal THEN "create_journal"
    ELSE "submit_to_erp"

\* Mutant: the journal is asked for before the notification.
MonthlyNextAction_journal_first(row, ready, notified, journal, submitted) ==
    IF submitted THEN "completed"
    ELSE IF ~ready THEN "address_doubtful"
    ELSE IF row.good_transactions > 0 /\ ~journal THEN "create_journal"
    ELSE IF row.doubtful_transactions > 0 /\ ~notified THEN "notify_sources"
    ELSE "submit_to_erp"

\* next_action of _build_monthly_summaries_from_data (first match wins).
MonthlyNextAction(row, ready, notified, journal, submitted) ==
    IF submitted THEN "completed"
    ELSE IF ~ready THEN "address_doubtful"
    ELSE IF row.doubtful_transactions > 0 /\ ~notified THEN "notify_sources"
    ELSE IF row.good_transactions > 0 /\ ~journal THEN "create_journal"
    ELSE "submit_to_erp"

\* state.get(key, default) on a month's stored state.
MonthStateOf(by_month, month) ==
    IF month \in DOMAIN by_month THEN by_month[month] ELSE NewMonthState

\* Storage._build_monthly_summaries_from_data, the item of one month.
MonthlySummaryOf(ds, excs, by_month, month) ==
    LET row == _monthly_index(ds, excs, month)
        state == MonthStateOf(by_month, month)
        ready == ready_for_submission(row)
    IN [month |-> month,
        total_transactions |-> row.total_transactions,
        good_transactions |-> row.good_transactions,
        doubtful_transactions |-> row.doubtful_transactions,
        addressed_doubtful |-> row.addressed_doubtful,
        unresolved_doubtful |-> row.unresolved_doubtful,
        ready_for_submission |-> ready,
        notified_to_source |-> state.notified_to_source,
        journal_created |-> state.journal_created,
        submitted_to_erp |-> state.submitted_to_erp,
        next_action |-> MonthlyNextAction(row, ready, state.notified_to_source,
                                          state.journal_created, state.submitted_to_erp),
        notified_at |-> state.notified_at,
        journal_created_at |-> state.journal_created_at,
        submitted_at |-> state.submitted_at]

\* Storage.get_monthly_submission on the stored data (month in SummaryMonths).
get_monthly_submission(run_id, month) ==
    MonthlySummaryOf(decisions[run_id], exceptions[run_id],
                     monthly_submissions[run_id], month)

-----------------------------------------------------------------------------
\* Daily scope.

\* Storage._ensure_daily_state: the state a run has before anything was stored.
NewDailyState == [closed_at |-> None, business_date |-> None]

\* Date part of the run's created_at, the fallback of _run_business_date.
CreatedDate == "created_at[:10]"

\* Storage._run_business_date.
_run_business_date(run_id) ==
    IF daily_ops[run_id].business_date # None
    THEN daily_ops[run_id].business_date
    ELSE CreatedDate

\* datetime.fromisoformat accepts the value.
IsIsoDate(business_date) == business_date = "2026-02-03"

\* Mutant: a close state that does not wait for the notifications.
DailyCloseState_no_notifications(closed_at, run_status, unresolved, sent, required) ==
    IF closed_at # None THEN [close_state |-> "closed", next_action |-> "closed"]
    ELSE IF run_status # COMPLETED
        THEN [close_state |-> "open", next_action |-> "wait_run_completion"]
    ELSE IF unresolved > 0
        THEN [close_state |-> "open", next_action |-> "address_doubtful"]
    ELSE [close_state |-> "ready_to_close", next_action |-> "close_day"]

\* Mutant: unresolved doubtful transactions are looked at before the run status.
DailyCloseState_unresolved_first(closed_at, run_status, unresolved, sent, required) ==
    IF closed_at # None THEN [close_state |-> "closed", next_action |-> "closed"]
    ELSE IF unresolved > 0
        THEN [close_state |-> "open", next_action |-> "address_doubtful"]
    ELSE IF run_status # COMPLETED
        THEN [close_state |-> "open", next_action |-> "wait_run_completion"]
    ELSE IF sent < required
        THEN [close_state |-> "open", next_action |-> "send_notifications"]
    ELSE [close_state |-> "ready_to_close", next_action |-> "close_day"]

\* close_state and next_action of _build_daily_ops_summary_from_data (first match wins).
DailyCloseState(closed_at, run_status, unresolved, sent, required) ==
    IF closed_at # None THEN [close_state |-> "closed", next_action |-> "closed"]
    ELSE IF run_status # COMPLETED
        THEN [close_state |-> "open", next_action |-> "wait_run_completion"]
    ELSE IF unresolved > 0
        THEN [close_state |-> "open", next_action |-> "address_doubtful"]
    ELSE IF sent < required
        THEN [close_state |-> "open", next_action |-> "send_notifications"]
    ELSE [close_state |-> "ready_to_close", next_action |-> "close_day"]

\* The counters _build_daily_ops_summary_from_data decides the close state on.
DailyUnresolved(run_id) ==
    LET months == SummaryMonths(run_id)
    IN SumOver(months,
               [m \in months |-> get_monthly_submission(run_id, m).unresolved_doubtful])

notifications_required(run_id) ==
    Cardinality({m \in SummaryMonths(run_id) :
                    get_monthly_submission(run_id, m).doubtful_transactions > 0})

notifications_sent(run_id) ==
    Cardinality({m \in SummaryMonths(run_id) :
                    /\ get_monthly_submission(run_id, m).doubtful_transactions > 0
                    /\ get_monthly_submission(run_id, m).notified_to_source})

\* close_state and next_action of a run (run_id in DOMAIN runs).
DailyState(run_id) ==
    DailyCloseState(daily_ops[run_id].closed_at, runs[run_id].status,
                    DailyUnresolved(run_id), notifications_sent(run_id),
                    notifications_required(run_id))

\* Storage._build_daily_ops_summary_from_data (run_id in DOMAIN runs).
_build_daily_ops_summary_from_data(run_id) ==
    LET months == SummaryMonths(run_id)
        item == [m \in months |-> get_monthly_submission(run_id, m)]
        unresolved == DailyUnresolved(run_id)
        required == notifications_required(run_id)
        sent == notifications_sent(run_id)
        closed_at == daily_ops[run_id].closed_at
        st == DailyState(run_id)
    IN [run_id |-> run_id,
        run_status |-> runs[run_id].status,
        business_date |-> _run_business_date(run_id),
        total_transactions |->
            SumOver(months, [m \in months |-> item[m].total_transactions]),
        good_transactions |->
            SumOver(months, [m \in months |-> item[m].good_transactions]),
        doubtful_transactions |->
            SumOver(months, [m \in months |-> item[m].doubtful_transactions]),
        unresolved_doubtful |-> unresolved,
        addressed_doubtful |->
            SumOver(months, [m \in months |-> item[m].addressed_doubtful]),
        notifications_required |-> required,
        notifications_sent |-> sent,
        close_state |-> st.close_state,
        next_action |-> st.next_action,
        closed_at |-> closed_at]

-----------------------------------------------------------------------------
\* Monthly close scope (cross-run).

\* Storage._ensure_monthly_close_state: the state of a month first touched.
NewCloseState ==
    [journal_created |-> FALSE, submitted_to_erp |-> FALSE,
     journal_created_at |-> None, submitted_at |-> None]

_ensure_monthly_close_state(by_month, month) ==
    IF month \in DOMAIN by_month THEN by_month ELSE by_month @@ (month :> NewCloseState)

CloseStateOf(month) ==
    IF month \in DOMAIN monthly_close THEN monthly_close[month] ELSE NewCloseState

\* Mutant: every run with a bucket for the month is aggregated, closed or not.
source_run_ids_any_state(month) ==
    {r \in DOMAIN runs : month \in SummaryMonths(r)}

\* The runs _build_monthly_close_batches_from_data aggregates into a month:
\* daily close_state closed, and a monthly item for that month.
source_run_ids(month) ==
    {r \in DOMAIN runs :
        /\ DailyState(r).close_state = "closed"
        /\ month \in SummaryMonths(r)}

\* Months that have a batch: aggregate keys and stored state keys.
BatchMonths ==
    {m \in TxnMonths : source_run_ids(m) # {}} \cup DOMAIN monthly_close

\* Mutant: readiness that only asks for a contributing run.
ready_for_erp_any_run(source_run_count, unresolved_doubtful) == source_run_count > 0

\* ready_for_erp of _build_monthly_close_batches_from_data.
ready_for_erp(source_run_count, unresolved_doubtful) ==
    source_run_count > 0 /\ unresolved_doubtful = 0

\* Mutant: the journal is asked for before the batch is ready.
CloseNextAction_journal_first(ready, journal, submitted) ==
    IF submitted THEN "completed"
    ELSE IF ~journal THEN "create_journal"
    ELSE IF ~ready THEN "wait_for_daily_close"
    ELSE "submit_to_erp"

\* next_action of _build_monthly_close_batches_from_data (first match wins).
CloseNextAction(ready, journal, submitted) ==
    IF submitted THEN "completed"
    ELSE IF ~ready THEN "wait_for_daily_close"
    ELSE IF ~journal THEN "create_journal"
    ELSE "submit_to_erp"

\* Storage._build_monthly_close_batches_from_data, the batch of one month.
get_monthly_close_batch(month) ==
    LET src == source_run_ids(month)
        item == [r \in src |-> get_monthly_submission(r, month)]
        unresolved == SumOver(src, [r \in src |-> item[r].unresolved_doubtful])
        state == CloseStateOf(month)
        ready == ready_for_erp(Cardinality(src), unresolved)
    IN [month |-> month,
        source_run_ids |-> src,
        source_run_count |-> Cardinality(src),
        total_transactions |-> SumOver(src, [r \in src |-> item[r].total_transactions]),
        good_transactions |-> SumOver(src, [r \in src |-> item[r].good_transactions]),
        doubtful_transactions |->
            SumOver(src, [r \in src |-> item[r].doubtful_transactions]),
        ready_for_erp |-> ready,
        journal_created |-> state.journal_created,
        submitted_to_erp |-> state.submitted_to_erp,
        next_action |-> CloseNextAction(ready, state.journal_created,
                                        state.submitted_to_erp),
        journal_created_at |-> state.journal_created_at,
        submitted_at |-> state.submitted_at]

-----------------------------------------------------------------------------
\* The state after Storage.__init__ on an empty directory.

EmptyMonths == [m \in {} |-> NewMonthState]

StoreInit ==
    /\ runs = [r \in {} |-> [status |-> DRAFT, stage |-> "created"]]
    /\ decisions = [r \in RunIds |-> <<>>]
    /\ exceptions = [r \in RunIds |-> <<>>]
    /\ monthly_submissions = [r \in RunIds |-> EmptyMonths]
    /\ daily_ops = [r \in RunIds |-> NewDailyState]
    /\ monthly_close = [m \in {} |-> NewCloseState]
    /\ job = [r \in RunIds |-> "idle"]
    /\ executions = 0
    /\ response = [op |-> "init", status |-> OK]
    /\ audit_events = <<>>
    /\ calls = [t \in Threads |-> IdleCall]

\* The workflow specifications hold no frames and no reconcile() result: the
\* decision lists their job stores are drawn from DecisionLists.
NoReconcile ==
    /\ sources = [internal |-> <<>>, erp |-> <<>>, psp |-> <<>>]
    /\ validation = [status |-> "none", decisions |-> <<>>, exceptions |-> <<>>]

\* data["audit_events"] is appended to by the handlers and read by none of
\* them.  The specifications of the three workflow scopes do not record it
\* (audit_recorded is false); InitAudit records every entry up to MaxAudit.
Init == StoreInit /\ audit_recorded = FALSE /\ NoReconcile

InitAudit == StoreInit /\ audit_recorded = TRUE /\ NoReconcile

\* before_json and after_json of an audit entry: None, or a dict.
JsonNone == <<>>
Json(d) == <<d>>

\* The entry Storage._audit builds; its id is a fresh uuid4, here its position.
AuditEvent(actor, action, entity_type, entity_id, before, after) ==
    [actor_id |-> actor, action |-> action, entity_type |-> entity_type,
     entity_id |-> entity_id, before_json |-> before, after_json |-> after,
     timestamp |-> Stamp]

\* Storage._audit for the entries of one handler call, in order.
_audit(events) ==
    /\ IF ~audit_recorded THEN UNCHANGED audit_events
       ELSE /\ Len(audit_events) + Len(events) <= MaxAudit
            /\ audit_events' = audit_events \o events
    /\ UNCHANGED audit_recorded

\* Storage.update_run's audit entry: the stored run before and after.
AuditRun(run_id) ==
    _audit(<<AuditEvent("system", "update_run", "reconciliation_run", run_id,
                        Json(runs[run_id]), Json(runs'[run_id]))>>)

\* The audit entry of the run x month handlers that flip a flag.
AuditMonth(actor, action, run_id, month) ==
    AuditEvent(actor, action, "monthly_submission", <<run_id, month>>,
               Json(MonthStateOf(monthly_submissions[run_id], month)),
               Json(monthly_submissions'[run_id][month]))

\* The audit entry of the monthly close handlers.
AuditClose(actor, action, month) ==
    AuditEvent(actor, action, "monthly_close", month,
               Json(CloseStateOf(month)), Json(monthly_close'[month]))

\* The audit entry of the daily handlers.
AuditDaily(actor, action, run_id) ==
    AuditEvent(actor, action, "daily_ops", run_id,
               Json(daily_ops[run_id]), Json(daily_ops'[run_id]))

Respond(op, status) == response' = [op |-> op, status |-> status]

\* Mutant: a call that raises has already stored an audit entry of the attempt.
Rejected_logged(op, status) ==
    /\ Respond(op, status)
    /\ _audit(<<AuditEvent("system", op, "rejected", status, JsonNone, JsonNone)>>)
    /\ UNCHANGED <<runs, decisions, exceptions, monthly_submissions, daily_ops,
                   monthly_close, job, executions, calls, sources, validation>>

\* A call that raises before it saves: nothing of the document changes.
Rejected(op, status) ==
    /\ Respond(op, status)
    /\ UNCHANGED <<runs, decisions, exceptions, monthly_submissions, daily_ops,
                   monthly_close, job, executions, audit_events, audit_recorded, calls, sources, validation>>

-----------------------------------------------------------------------------
\* Runs and the reconciliation job (service.py).

\* Storage.create_run: a fresh uuid, status draft.
create_run(run_id) ==
    /\ run_id \notin DOMAIN runs
    /\ runs' = runs @@ (run_id :> [status |-> DRAFT, stage |-> "created"])
    /\ Respond("create_run", OK)
    /\ _audit(<<AuditEvent("analyst", "create_run", "reconciliation_run", run_id,
                           JsonNone, Json(runs'[run_id]))>>)
    /\ UNCHANGED <<decisions, exceptions, monthly_submissions, daily_ops,
                   monthly_close, job, executions, calls, sources, validation>>

\* service.execute_reconciliation, first save: get_run, update_run(running).
execute_start(run_id) ==
    IF run_id \notin DOMAIN runs THEN Rejected("execute_reconciliation", KeyError)
    ELSE /\ job[run_id] = "idle"
         /\ executions < MaxExecutions
         /\ runs' = [runs EXCEPT ![run_id] =
                        [status |-> RUNNING, stage |-> "loading_sources"]]
         /\ job' = [job EXCEPT ![run_id] = "loading"]
         /\ executions' = executions + 1
         /\ AuditRun(run_id)
         /\ UNCHANGED <<decisions, exceptions, monthly_submissions, daily_ops,
                        monthly_close, response, calls, sources, validation>>

\* execute_reconciliation gives up: a source is missing (failed) or a file does
\* not standardize (format_failed); it raises ValueError.
execute_fail(run_id) ==
    /\ job[run_id] = "loading"
    /\ \E st \in {FAILED, FORMAT_FAILED} :
          runs' = [runs EXCEPT ![run_id] = [status |-> st, stage |-> st]]
    /\ job' = [job EXCEPT ![run_id] = "idle"]
    /\ Respond("execute_reconciliation", ValueError)
    /\ AuditRun(run_id)
    /\ UNCHANGED <<decisions, exceptions, monthly_submissions, daily_ops, monthly_close,
                   executions, calls, sources, validation>>

\* Storage.add_decisions: the run's list is replaced, every month of it gets a state.
RECURSIVE EnsureMonths(_, _)
EnsureMonths(by_month, months) ==
    IF months = {} THEN by_month
    ELSE LET m == CHOOSE x \in months : TRUE
         IN EnsureMonths(_ensure_month_state(by_month, m), months \ {m})

\* execute_reconciliation: update_run(reconciling), reconcile, add_decisions.
add_decisions(run_id, ds) ==
    /\ job[run_id] = "loading"
    /\ decisions' = [decisions EXCEPT ![run_id] = ds]
    /\ monthly_submissions' = [monthly_submissions EXCEPT ![run_id] =
                                  EnsureMonths(@, StatMonths(ds))]
    /\ runs' = [runs EXCEPT ![run_id] = [status |-> RUNNING, stage |-> "reconciling"]]
    /\ job' = [job EXCEPT ![run_id] = "decisions_saved"]
    /\ AuditRun(run_id)
    /\ UNCHANGED <<exceptions, daily_ops, monthly_close, executions, response, calls, sources, validation>>

\* execute_reconciliation: add_exceptions with the cases of the same result.
add_exceptions(run_id) ==
    /\ job[run_id] = "decisions_saved"
    /\ exceptions' = [exceptions EXCEPT ![run_id] = ExceptionsFor(run_id, decisions[run_id])]
    /\ job' = [job EXCEPT ![run_id] = "exceptions_saved"]
    /\ UNCHANGED <<audit_events, audit_recorded>>
    /\ UNCHANGED <<runs, decisions, monthly_submissions, daily_ops, monthly_close,
                   executions, response, calls, sources, validation>>

\* execute_reconciliation, last save: update_run(completed).
execute_complete(run_id) ==
    /\ job[run_id] = "exceptions_saved"
    /\ runs' = [runs EXCEPT ![run_id] = [status |-> COMPLETED, stage |-> "completed"]]
    /\ job' = [job EXCEPT ![run_id] = "idle"]
    /\ Respond("execute_reconciliation", OK)
    /\ AuditRun(run_id)
    /\ UNCHANGED <<decisions, exceptions, monthly_submissions, daily_ops, monthly_close,
                   executions, calls, sources, validation>>

\* Mutant: the action is written to the decision of the case too.
update_exception_state_on_decision(exception_id, action) ==
    LET owners == {r \in RunIds : \E i \in Indices(exceptions[r]) :
                                     exceptions[r][i].id = exception_id}
    IN IF owners = {} THEN Rejected("update_exception_state", KeyError)
       ELSE \E r \in owners :
              /\ LET items == exceptions[r]
                 IN exceptions' = [exceptions EXCEPT ![r] =
                       [i \in Indices(items) |->
                           IF items[i].id = exception_id
                           THEN [items[i] EXCEPT !.state = action] ELSE items[i]]]
              /\ decisions' = [decisions EXCEPT ![r] =
                    [i \in Indices(decisions[r]) |->
                        IF <<r, decisions[r][i].merchant_ref>> = exception_id
                           /\ action = "approved"
                        THEN [decisions[r][i] EXCEPT !.final_status = GOOD]
                        ELSE decisions[r][i]]]
              /\ Respond("update_exception_state", OK)
              /\ _audit(<<AuditEvent("system", "exception_action", "exception", exception_id, JsonNone,
                             Json(exceptions'[r][CHOOSE i \in Indices(exceptions[r]) :
                                                     exceptions[r][i].id = exception_id]))>>)
              /\ UNCHANGED <<runs, monthly_submissions, daily_ops,
                             monthly_close, job, executions, calls, sources, validation>>

\* Storage.update_exception_state: the first case with that id gets the state.
update_exception_state(exception_id, action) ==
    LET owners == {r \in RunIds : \E i \in Indices(exceptions[r]) :
                                     exceptions[r][i].id = exception_id}
    IN IF owners = {} THEN Rejected("update_exception_state", KeyError)
       ELSE \E r \in owners :
              /\ LET items == exceptions[r]
                 IN exceptions' = [exceptions EXCEPT ![r] =
                       [i \in Indices(items) |->
                           IF items[i].id = exception_id
                           THEN [items[i] EXCEPT !.state = action] ELSE items[i]]]
              /\ Respond("update_exception_state", OK)
              /\ _audit(<<AuditEvent("system", "exception_action", "exception", exception_id, JsonNone,
                             Json(exceptions'[r][CHOOSE i \in Indices(exceptions[r]) :
                                                     exceptions[r][i].id = exception_id]))>>)
              /\ UNCHANGED <<runs, decisions, monthly_submissions, daily_ops,
                             monthly_close, job, executions, calls, sources, validation>>

-----------------------------------------------------------------------------
\* Run x month scope (monthly submission).

\* Mutant: only the first case found is verified by one call.
AddressExceptions_first_only(items, target_refs) ==
    LET pending == {i \in Indices(items) :
                      /\ items[i].merchant_ref \in target_refs
                      /\ items[i].state \notin addressed_states}
    IN [i \in Indices(items) |->
           IF i \in pending /\ \A j \in pending : i <= j
           THEN [items[i] EXCEPT !.state = "verified"]
           ELSE items[i]]

\* Mutant: every case of the run that is not addressed is verified, whatever
\* its month.
AddressExceptions_all_months(items, target_refs) ==
    [i \in Indices(items) |->
        IF items[i].state \notin addressed_states
        THEN [items[i] EXCEPT !.state = "verified"]
        ELSE items[i]]

\* The exception rewrite of address_monthly_doubtful: every case of the month's
\* references that is not in an addressed state becomes verified.
AddressExceptions(items, target_refs) ==
    [i \in Indices(items) |->
        IF items[i].merchant_ref \in target_refs /\ items[i].state \notin addressed_states
        THEN [items[i] EXCEPT !.state = "verified"]
        ELSE items[i]]

\* The stored state after address_monthly_doubtful touched the month.
AddressedMonthState(by_month, month) ==
    [_ensure_month_state(by_month, month) EXCEPT ![month].doubtful_addressed_at = Stamp]

\* The audit entry of address_monthly_doubtful: no before state, and after it
\* the month and the number of cases the call verified.
AuditAddressed(actor, run_id, month) ==
    AuditEvent(actor, "monthly_address_doubtful", "monthly_submission", <<run_id, month>>,
               JsonNone,
               Json([month |-> month,
                     updated_exceptions |-> Cardinality(
                        {i \in Indices(exceptions[run_id]) :
                            /\ exceptions[run_id][i].merchant_ref
                                  \in refs_by_month(decisions[run_id], month)
                            /\ exceptions[run_id][i].state \notin addressed_states})]))

\* Storage.address_monthly_doubtful.
address_monthly_doubtful(run_id, month) ==
    IF month \notin SummaryMonths(run_id)
    THEN Rejected("address_monthly_doubtful", KeyError)
    ELSE /\ exceptions' = [exceptions EXCEPT ![run_id] =
                AddressExceptions(@, refs_by_month(decisions[run_id], month))]
         /\ monthly_submissions' = [monthly_submissions EXCEPT ![run_id] =
                AddressedMonthState(@, month)]
         /\ Respond("address_monthly_doubtful", OK)
         /\ _audit(<<AuditAddressed("analyst", run_id, month)>>)
         /\ UNCHANGED <<runs, decisions, daily_ops, monthly_close, job, executions, calls, sources, validation>>

\* The stored state after mark_monthly_notified.
NotifiedMonthState(by_month, month) ==
    [_ensure_month_state(by_month, month) EXCEPT
        ![month].notified_to_source = TRUE, ![month].notified_at = Stamp]

\* Mutant: notification without the guard on doubtful_transactions.
mark_monthly_notified_unguarded(run_id, month) ==
    IF month \notin SummaryMonths(run_id)
    THEN Rejected("mark_monthly_notified", KeyError)
    ELSE /\ monthly_submissions' = [monthly_submissions EXCEPT ![run_id] =
                NotifiedMonthState(@, month)]
         /\ Respond("mark_monthly_notified", OK)
         /\ _audit(<<AuditMonth("analyst", "monthly_notify_sources", run_id, month)>>)
         /\ UNCHANGED <<runs, decisions, exceptions, daily_ops, monthly_close, job, executions, calls, sources, validation>>

\* Storage.mark_monthly_notified.
mark_monthly_notified(run_id, month) ==
    LET summary == get_monthly_submission(run_id, month) IN
    IF month \notin SummaryMonths(run_id)
    THEN Rejected("mark_monthly_notified", KeyError)
    ELSE IF summary.doubtful_transactions = 0
    THEN Rejected("mark_monthly_notified", ValueError)
    ELSE /\ monthly_submissions' = [monthly_submissions EXCEPT ![run_id] =
                NotifiedMonthState(@, month)]
         /\ Respond("mark_monthly_notified", OK)
         /\ _audit(<<AuditMonth("analyst", "monthly_notify_sources", run_id, month)>>)
         /\ UNCHANGED <<runs, decisions, exceptions, daily_ops, monthly_close, job, executions, calls, sources, validation>>

\* Mutant: a journal for a ready month whatever its good transactions.
create_monthly_journal_any_good(run_id, month) ==
    LET summary == get_monthly_submission(run_id, month) IN
    IF month \notin SummaryMonths(run_id)
    THEN Rejected("create_monthly_journal", KeyError)
    ELSE IF ~summary.ready_for_submission
    THEN Rejected("create_monthly_journal", ValueError)
    ELSE /\ monthly_submissions' = [monthly_submissions EXCEPT ![run_id] =
                [_ensure_month_state(@, month) EXCEPT
                    ![month].journal_created = TRUE,
                    ![month].journal_created_at = Stamp]]
         /\ Respond("create_monthly_journal", OK)
         /\ _audit(<<AuditMonth("supervisor", "monthly_create_journal", run_id, month)>>)
         /\ UNCHANGED <<runs, decisions, exceptions, daily_ops, monthly_close, job, executions, calls, sources, validation>>

\* Storage.create_monthly_journal.
create_monthly_journal(run_id, month) ==
    LET summary == get_monthly_submission(run_id, month) IN
    IF month \notin SummaryMonths(run_id)
    THEN Rejected("create_monthly_journal", KeyError)
    ELSE IF ~summary.ready_for_submission
    THEN Rejected("create_monthly_journal", ValueError)
    ELSE IF summary.good_transactions <= 0
    THEN Rejected("create_monthly_journal", ValueError)
    ELSE /\ monthly_submissions' = [monthly_submissions EXCEPT ![run_id] =
                [_ensure_month_state(@, month) EXCEPT
                    ![month].journal_created = TRUE,
                    ![month].journal_created_at = Stamp]]
         /\ Respond("create_monthly_journal", OK)
         /\ _audit(<<AuditMonth("supervisor", "monthly_create_journal", run_id, month)>>)
         /\ UNCHANGED <<runs, decisions, exceptions, daily_ops, monthly_close, job, executions, calls, sources, validation>>

\* Mutant: submission that does not look at the journal.
SubmitJournalGuard_dropped(good_transactions, journal_created) == TRUE

\* The guard of submit_monthly_to_erp on the journal: with good transactions the
\* stored journal_created flag must be set.
SubmitJournalGuard(good_transactions, journal_created) ==
    ~(good_transactions > 0 /\ ~journal_created)

\* Storage.submit_monthly_to_erp.
submit_monthly_to_erp(run_id, month) ==
    LET summary == get_monthly_submission(run_id, month) IN
    IF month \notin SummaryMonths(run_id)
    THEN Rejected("submit_monthly_to_erp", KeyError)
    ELSE IF ~summary.ready_for_submission
    THEN Rejected("submit_monthly_to_erp", ValueError)
    ELSE IF ~SubmitJournalGuard(summary.good_transactions,
                MonthStateOf(monthly_submissions[run_id], month).journal_created)
    THEN Rejected("submit_monthly_to_erp", ValueError)
    ELSE /\ monthly_submissions' = [monthly_submissions EXCEPT ![run_id] =
                [_ensure_month_state(@, month) EXCEPT
                    ![month].submitted_to_erp = TRUE,
                    ![month].submitted_at = Stamp]]
         /\ Respond("submit_monthly_to_erp", OK)
         /\ _audit(<<AuditMonth("admin", "monthly_submit_erp", run_id, month)>>)
         /\ UNCHANGED <<runs, decisions, exceptions, daily_ops, monthly_close, job, executions, calls, sources, validation>>

-----------------------------------------------------------------------------
\* Run scope (daily ops).

\* Storage.set_daily_business_date.
set_daily_business_date(run_id, business_date) ==
    IF run_id \notin DOMAIN runs THEN Rejected("set_daily_business_date", KeyError)
    ELSE IF ~IsIsoDate(business_date) THEN Rejected("set_daily_business_date", ValueError)
    ELSE /\ daily_ops' = [daily_ops EXCEPT ![run_id].business_date = business_date]
         /\ Respond("set_daily_business_date", OK)
         /\ _audit(<<AuditDaily("analyst", "daily_set_business_date", run_id)>>)
         /\ UNCHANGED <<runs, decisions, exceptions, monthly_submissions,
                        monthly_close, job, executions, calls, sources, validation>>

\* address_monthly_doubtful applied to each target month in turn.
RECURSIVE AddressMonths(_, _, _)
AddressMonths(items, ds, months) ==
    IF months = {} THEN items
    ELSE LET m == CHOOSE x \in months : TRUE
         IN AddressMonths(AddressExceptions(items, refs_by_month(ds, m)), ds, months \ {m})

RECURSIVE AddressedMonthStates(_, _)
AddressedMonthStates(by_month, months) ==
    IF months = {} THEN by_month
    ELSE LET m == CHOOSE x \in months : TRUE
         IN AddressedMonthStates(AddressedMonthState(by_month, m), months \ {m})

\* Mutant: one call addresses the first unresolved month only.
DailyAddressTargets_first_month(run_id) ==
    LET unresolved == {m \in SummaryMonths(run_id) :
                          get_monthly_submission(run_id, m).unresolved_doubtful > 0}
    IN {m \in unresolved : SortedMonths(unresolved)[1] = m}

\* target_months of address_daily_doubtful.
DailyAddressTargets(run_id) ==
    {m \in SummaryMonths(run_id) : get_monthly_submission(run_id, m).unresolved_doubtful > 0}

\* Storage.address_daily_doubtful.
address_daily_doubtful(run_id) ==
    LET target_months == DailyAddressTargets(run_id)
    IN IF target_months = {}
       THEN IF run_id \notin DOMAIN runs
            THEN Rejected("address_daily_doubtful", KeyError)
            ELSE Rejected("address_daily_doubtful", OK)
       ELSE /\ exceptions' = [exceptions EXCEPT ![run_id] =
                   AddressMonths(@, decisions[run_id], target_months)]
            /\ monthly_submissions' = [monthly_submissions EXCEPT ![run_id] =
                   AddressedMonthStates(@, target_months)]
            /\ Respond("address_daily_doubtful", OK)
            /\ _audit([k \in 1..Len(SortedMonths(target_months)) |->
                     AuditAddressed("analyst", run_id, SortedMonths(target_months)[k])])
            /\ UNCHANGED <<runs, decisions, daily_ops, monthly_close, job, executions, calls, sources, validation>>

\* Mutant: months with unresolved doubtful transactions are skipped, not refused.
DailyNotifyCandidates_skip_unresolved(run_id) ==
    {m \in SummaryMonths(run_id) :
        /\ get_monthly_submission(run_id, m).doubtful_transactions > 0
        /\ ~get_monthly_submission(run_id, m).notified_to_source
        /\ get_monthly_submission(run_id, m).unresolved_doubtful = 0}

\* Months notify_daily_ops looks at: doubtful transactions and not yet notified.
DailyNotifyCandidates(run_id) ==
    {m \in SummaryMonths(run_id) :
        /\ get_monthly_submission(run_id, m).doubtful_transactions > 0
        /\ ~get_monthly_submission(run_id, m).notified_to_source}

RECURSIVE NotifiedMonthStates(_, _)
NotifiedMonthStates(by_month, months) ==
    IF months = {} THEN by_month
    ELSE LET m == CHOOSE x \in months : TRUE
         IN NotifiedMonthStates(NotifiedMonthState(by_month, m), months \ {m})

\* Mutant: the months are notified one by one as they are scanned, so a
\* refusal comes after the resolved months were saved.
notify_daily_ops_partial(run_id) ==
    LET candidates == DailyNotifyCandidates(run_id)
        resolved == DailyNotifyCandidates_skip_unresolved(run_id)
    IN IF candidates = {}
       THEN IF run_id \notin DOMAIN runs
            THEN Rejected("notify_daily_ops", KeyError)
            ELSE Rejected("notify_daily_ops", OK)
       ELSE /\ monthly_submissions' = [monthly_submissions EXCEPT ![run_id] =
                   NotifiedMonthStates(@, resolved)]
            /\ Respond("notify_daily_ops", IF resolved = candidates THEN OK ELSE ValueError)
            /\ _audit([k \in 1..Len(SortedMonths(resolved)) |->
                     AuditMonth("analyst", "monthly_notify_sources", run_id, SortedMonths(resolved)[k])])
            /\ UNCHANGED <<runs, decisions, exceptions, daily_ops, monthly_close, job, executions, calls, sources, validation>>

\* Storage.notify_daily_ops.
notify_daily_ops(run_id) ==
    LET candidates == DailyNotifyCandidates(run_id)
    IN IF \E m \in candidates : get_monthly_submission(run_id, m).unresolved_doubtful > 0
       THEN Rejected("notify_daily_ops", ValueError)
       ELSE IF candidates = {}
       THEN IF run_id \notin DOMAIN runs
            THEN Rejected("notify_daily_ops", KeyError)
            ELSE Rejected("notify_daily_ops", OK)
       ELSE /\ monthly_submissions' = [monthly_submissions EXCEPT ![run_id] =
                   NotifiedMonthStates(@, candidates)]
            /\ Respond("notify_daily_ops", OK)
            /\ _audit([k \in 1..Len(SortedMonths(candidates)) |->
                     AuditMonth("analyst", "monthly_notify_sources", run_id, SortedMonths(candidates)[k])])
            /\ UNCHANGED <<runs, decisions, exceptions, daily_ops, monthly_close, job, executions, calls, sources, validation>>

\* Storage.close_daily_ops.
close_daily_ops(run_id) ==
    IF run_id \notin DOMAIN runs THEN Rejected("close_daily_ops", KeyError)
    ELSE IF DailyState(run_id).close_state # "ready_to_close"
    THEN Rejected("close_daily_ops", ValueError)
    ELSE /\ daily_ops' = [daily_ops EXCEPT ![run_id].closed_at = Stamp]
         /\ runs' = [runs EXCEPT ![run_id].stage = "daily_closed"]
         /\ Respond("close_daily_ops", OK)
         /\ _audit(<<AuditDaily("supervisor", "daily_close", run_id)>>)
         /\ UNCHANGED <<decisions, exceptions, monthly_submissions, monthly_close, job, executions, calls, sources, validation>>

-----------------------------------------------------------------------------
\* Monthly close scope.

\* Mutant: a monthly close journal without the readiness guard.
create_monthly_close_journal_unready(month) ==
    LET batch == get_monthly_close_batch(month) IN
    IF month \notin BatchMonths THEN Rejected("create_monthly_close_journal", KeyError)
    ELSE IF batch.good_transactions <= 0
    THEN Rejected("create_monthly_close_journal", ValueError)
    ELSE /\ monthly_close' = [_ensure_monthly_close_state(monthly_close, month) EXCEPT
                ![month].journal_created = TRUE, ![month].journal_created_at = Stamp]
         /\ Respond("create_monthly_close_journal", OK)
         /\ _audit(<<AuditClose("supervisor", "monthly_close_create_journal", month)>>)
         /\ UNCHANGED <<runs, decisions, exceptions, monthly_submissions, daily_ops, job, executions, calls, sources, validation>>

\* Storage.create_monthly_close_journal.
create_monthly_close_journal(month) ==
    LET batch == get_monthly_close_batch(month) IN
    IF month \notin BatchMonths THEN Rejected("create_monthly_close_journal", KeyError)
    ELSE IF ~batch.ready_for_erp
    THEN Rejected("create_monthly_close_journal", ValueError)
    ELSE IF batch.good_transactions <= 0
    THEN Rejected("create_monthly_close_journal", ValueError)
    ELSE /\ monthly_close' = [_ensure_monthly_close_state(monthly_close, month) EXCEPT
                ![month].journal_created = TRUE, ![month].journal_created_at = Stamp]
         /\ Respond("create_monthly_close_journal", OK)
         /\ _audit(<<AuditClose("supervisor", "monthly_close_create_journal", month)>>)
         /\ UNCHANGED <<runs, decisions, exceptions, monthly_submissions, daily_ops, job, executions, calls, sources, validation>>

\* Storage.submit_monthly_close_to_erp.
submit_monthly_close_to_erp(month) ==
    LET batch == get_monthly_close_batch(month) IN
    IF month \notin BatchMonths THEN Rejected("submit_monthly_close_to_erp", KeyError)
    ELSE IF ~batch.ready_for_erp
    THEN Rejected("submit_monthly_close_to_erp", ValueError)
    ELSE IF batch.good_transactions > 0
            /\ ~CloseStateOf(month).journal_created
    THEN Rejected("submit_monthly_close_to_erp", ValueError)
    ELSE /\ monthly_close' = [_ensure_monthly_close_state(monthly_close, month) EXCEPT
                ![month].submitted_to_erp = TRUE, ![month].submitted_at = Stamp]
         /\ Respond("submit_monthly_close_to_erp", OK)
         /\ _audit(<<AuditClose("admin", "monthly_close_submit_erp", month)>>)
         /\ UNCHANGED <<runs, decisions, exceptions, monthly_submissions, daily_ops, job, executions, calls, sources, validation>>

\* Storage.revert_monthly_close_submission is called by main.py and by
\* test_daily_monthly_split.py but its body is not among the sources; it is
\* modelled from the specification: on a submitted batch it clears both flags
\* and both timestamps; an unknown month is NotFound, a batch that is not
\* submitted a validation error.
revert_monthly_close_submission(month) ==
    LET batch == get_monthly_close_batch(month) IN
    IF month \notin BatchMonths THEN Rejected("revert_monthly_close_submission", KeyError)
    ELSE IF ~batch.submitted_to_erp
    THEN Rejected("revert_monthly_close_submission", ValueError)
    ELSE /\ monthly_close' = [_ensure_monthly_close_state(monthly_close, month) EXCEPT
                ![month] = NewCloseState]
         /\ Respond("revert_monthly_close_submission", OK)
         /\ _audit(<<AuditClose("admin", "monthly_close_revert_submission", month)>>)
         /\ UNCHANGED <<runs, decisions, exceptions, monthly_submissions, daily_ops, job, executions, calls, sources, validation>>

-----------------------------------------------------------------------------
\* service.execute_reconciliation for the runs in R, reconcile() returning a
\* decision list over the months M and the references F.
JobNext(R, M, F) ==
    \/ \E run_id \in R : create_run(run_id)
    \/ \E run_id \in R : execute_start(run_id)
    \/ \E run_id \in R : execute_fail(run_id)
    \/ \E run_id \in R, ds \in DecisionLists(M, F) : add_decisions(run_id, ds)
    \/ \E run_id \in R : add_exceptions(run_id)
    \/ \E run_id \in R : execute_complete(run_id)

\* POST /v1/exceptions/{id}/actions on the cases of the runs in R.
ExceptionNext(R, F) ==
    \E run_id \in R, ref \in F, action \in ExceptionActions :
        update_exception_state(<<run_id, ref>>, action)

\* Addressing and notifying, at run x month scope and through the daily handlers.
AddressNotifyNext(R, M) ==
    \/ \E run_id \in R, month \in M : address_monthly_doubtful(run_id, month)
    \/ \E run_id \in R, month \in M : mark_monthly_notified(run_id, month)
    \/ \E run_id \in R : address_daily_doubtful(run_id)
    \/ \E run_id \in R : notify_daily_ops(run_id)

\* Journal and ERP submission at run x month scope.
SubmissionNext(R, M) ==
    \/ \E run_id \in R, month \in M : create_monthly_journal(run_id, month)
    \/ \E run_id \in R, month \in M : submit_monthly_to_erp(run_id, month)

\* The cross-run monthly close handlers.
MonthlyCloseNext(M) ==
    \/ \E month \in M : create_monthly_close_journal(month)
    \/ \E month \in M : submit_monthly_close_to_erp(month)
    \/ \E month \in M : revert_monthly_close_submission(month)

OneRun == {"run-1"}
OneMonth == {"2026-03"}
OneRef == {1}

\* Run x month scope: one run and one month, the job, the exception actions and
\* every handler that writes decisions, exceptions or monthly_submissions.  The
\* summary of a run x month reads nothing else, and nothing of another run or month.
NextMonthly ==
    \/ JobNext(OneRun, OneMonth, Refs)
    \/ ExceptionNext(OneRun, Refs)
    \/ AddressNotifyNext(OneRun, OneMonth)
    \/ SubmissionNext(OneRun, OneMonth)

SpecMonthly == Init /\ [][NextMonthly]_vars

TwoRefs == {1, 2}

\* Run scope: one run with two months.  The daily summary reads the run's
\* status, its counters, the notified flags and closed_at; the journal and
\* submission flags are read by no daily guard.
NextDaily ==
    \/ JobNext(OneRun, TxnMonths, TwoRefs)
    \/ ExceptionNext(OneRun, TwoRefs)
    \/ AddressNotifyNext(OneRun, TxnMonths)
    \/ \E run_id \in OneRun : close_daily_ops(run_id)

SpecDaily == Init /\ [][NextDaily]_vars

\* Monthly close scope: two runs sharing one calendar month.  A batch reads the
\* runs' closed_at, their counters for the month and monthly_close.
NextClose ==
    \/ JobNext(RunIds, OneMonth, OneRef)
    \/ ExceptionNext(RunIds, OneRef)
    \/ \E run_id \in RunIds : address_daily_doubtful(run_id)
    \/ \E run_id \in RunIds : notify_daily_ops(run_id)
    \/ \E run_id \in RunIds : close_daily_ops(run_id)
    \/ MonthlyCloseNext(OneMonth)

SpecClose == Init /\ [][NextClose]_vars

\* The audit log: one run, one month and one reference, every handler of the
\* three scopes, and the log recorded up to MaxAudit entries.
NextAudit ==
    \/ JobNext(OneRun, OneMonth, OneRef)
    \/ ExceptionNext(OneRun, OneRef)
    \/ AddressNotifyNext(OneRun, OneMonth)
    \/ SubmissionNext(OneRun, OneMonth)
    \/ \E run_id \in OneRun, business_date \in BusinessDates :
          set_daily_business_date(run_id, business_date)
    \/ \E run_id \in OneRun : close_daily_ops(run_id)
    \/ \E month \in OneMonth : create_monthly_close_journal(month)
    \/ \E month \in OneMonth : submit_monthly_close_to_erp(month)

SpecAudit == InitAudit /\ [][NextAudit]_vars

OtherRun == {"run-2"}

\* Addressing across runs and months: one run with two months and two
\* references, another run with one reference, the exception actions on the
\* first run and address_monthly_doubtful on every run x month.
NextAddress ==
    \/ JobNext(OneRun, TxnMonths, TwoRefs)
    \/ JobNext(OtherRun, OneMonth, OneRef)
    \/ ExceptionNext(OneRun, TwoRefs)
    \/ \E run_id \in RunIds, month \in TxnMonths : address_monthly_doubtful(run_id, month)

SpecAddress == Init /\ [][NextAddress]_vars

-----------------------------------------------------------------------------
\* Concurrent handler calls.  The endpoints are plain functions, which the
\* framework runs in a thread pool, and Storage takes no lock: a call loads
\* the whole document, checks and mutates its own copy, and saves the whole
\* copy.  Each thread makes one call; its load and its save are separate steps.

\* The db.json document, as _load returns it and _save writes it.
Document ==
    [runs |-> runs, decisions |-> decisions, exceptions |-> exceptions,
     monthly_submissions |-> monthly_submissions, daily_ops |-> daily_ops,
     monthly_close |-> monthly_close, audit_events |-> audit_events]

\* How the call ends, decided on the document just loaded: the guards of
\* mark_monthly_notified, create_monthly_journal and close_daily_ops.
Guard(op, run_id, month) ==
    CASE op = "mark_monthly_notified" ->
            IF month \notin SummaryMonths(run_id) THEN KeyError
            ELSE IF get_monthly_submission(run_id, month).doubtful_transactions = 0
            THEN ValueError ELSE OK
      [] op = "create_monthly_journal" ->
            IF month \notin SummaryMonths(run_id) THEN KeyError
            ELSE IF ~get_monthly_submission(run_id, month).ready_for_submission
            THEN ValueError
            ELSE IF get_monthly_submission(run_id, month).good_transactions <= 0
            THEN ValueError ELSE OK
      [] op = "close_daily_ops" ->
            IF run_id \notin DOMAIN runs THEN KeyError
            ELSE IF DailyState(run_id).close_state # "ready_to_close"
            THEN ValueError ELSE OK

\* The stored state after create_monthly_journal.
JournalMonthState(by_month, month) ==
    [_ensure_month_state(by_month, month) EXCEPT
        ![month].journal_created = TRUE, ![month].journal_created_at = Stamp]

\* The document a call saves: the loaded copy with the call's own change and
\* its audit entry.
Mutated(op, run_id, month, doc) ==
    CASE op = "mark_monthly_notified" ->
            [doc EXCEPT
                !.monthly_submissions[run_id] = NotifiedMonthState(@, month),
                !.audit_events = Append(@,
                    AuditEvent("analyst", "monthly_notify_sources", "monthly_submission",
                        <<run_id, month>>,
                        Json(MonthStateOf(doc.monthly_submissions[run_id], month)),
                        Json(NotifiedMonthState(doc.monthly_submissions[run_id], month)[month])))]
      [] op = "create_monthly_journal" ->
            [doc EXCEPT
                !.monthly_submissions[run_id] = JournalMonthState(@, month),
                !.audit_events = Append(@,
                    AuditEvent("supervisor", "monthly_create_journal", "monthly_submission",
                        <<run_id, month>>,
                        Json(MonthStateOf(doc.monthly_submissions[run_id], month)),
                        Json(JournalMonthState(doc.monthly_submissions[run_id], month)[month])))]
      [] op = "close_daily_ops" ->
            [doc EXCEPT
                !.daily_ops[run_id].closed_at = Stamp,
                !.runs[run_id].stage = "daily_closed",
                !.audit_events = Append(@,
                    AuditEvent("supervisor", "daily_close", "daily_ops", run_id,
                        Json(doc.daily_ops[run_id]),
                        Json([doc.daily_ops[run_id] EXCEPT !.closed_at = Stamp])))]

\* Storage._load at the start of a handler call in thread t.  The guards are
\* evaluated on the loaded copy, which at this step is the stored document.
_load(t, op, run_id, month) ==
    /\ calls[t].pc = "idle"
    /\ calls' = [calls EXCEPT ![t] =
          [pc |-> "loaded", op |-> op, run_id |-> run_id, month |-> month,
           status |-> Guard(op, run_id, month), payload |-> <<Document>>]]
    /\ UNCHANGED <<runs, decisions, exceptions, monthly_submissions, daily_ops,
                   monthly_close, job, executions, response, audit_events,
                   audit_recorded, sources, validation>>

\* The rest of the call in thread t: it raises, or Storage._save writes the
\* thread's mutated copy over the stored document.
_save(t) ==
    /\ calls[t].pc = "loaded"
    /\ IF calls[t].status # OK
       THEN UNCHANGED <<runs, decisions, exceptions, monthly_submissions, daily_ops,
                        monthly_close, audit_events>>
       ELSE LET payload == Mutated(calls[t].op, calls[t].run_id, calls[t].month,
                                   calls[t].payload[1])
            IN /\ runs' = payload.runs
               /\ decisions' = payload.decisions
               /\ exceptions' = payload.exceptions
               /\ monthly_submissions' = payload.monthly_submissions
               /\ daily_ops' = payload.daily_ops
               /\ monthly_close' = payload.monthly_close
               /\ audit_events' = payload.audit_events
    /\ calls' = [calls EXCEPT ![t].pc = "returned"]
    /\ Respond(calls[t].op, calls[t].status)
    /\ UNCHANGED <<job, executions, audit_recorded, sources, validation>>

\* The months of a decision list that hold a doubtful transaction.
DoubtfulMonths(ds) ==
    {m \in StatMonths(ds) :
        \E i \in Indices(ds) :
            ds[i].transaction_month = m /\ ds[i].final_status = DOUBTFUL}

\* The audit entries of one run's create_run, execute_reconciliation and
\* address_daily_doubtful.
RunHistory(run_id, ds) ==
    LET created == [status |-> DRAFT, stage |-> "created"]
        loading == [status |-> RUNNING, stage |-> "loading_sources"]
        reconciling == [status |-> RUNNING, stage |-> "reconciling"]
        completed == [status |-> COMPLETED, stage |-> "completed"]
        update_run(prev, run) ==
            AuditEvent("system", "update_run", "reconciliation_run", run_id,
                       Json(prev), Json(run))
        months == SortedMonths(DoubtfulMonths(ds))
    IN <<AuditEvent("analyst", "create_run", "reconciliation_run", run_id,
                    JsonNone, Json(created)),
         update_run(created, loading), update_run(loading, reconciling),
         update_run(reconciling, completed)>>
       \o [k \in 1..Len(months) |->
             AuditEvent("analyst", "monthly_address_doubtful", "monthly_submission",
                 <<run_id, months[k]>>, JsonNone,
                 Json([month |-> months[k],
                       updated_exceptions |-> Cardinality(
                          {i \in Indices(ds) :
                              /\ ds[i].transaction_month = months[k]
                              /\ ds[i].final_status = DOUBTFUL})]))]

\* The documents after create_run, execute_reconciliation and
\* address_daily_doubtful for both runs, one run after the other: every run
\* completed with a decision list over one month and two references, every
\* exception case verified.
InitConcurrent ==
    \E dss \in [RunIds -> DecisionLists(OneMonth, TwoRefs)] :
        /\ runs = [r \in RunIds |-> [status |-> COMPLETED, stage |-> "completed"]]
        /\ decisions = dss
        /\ exceptions = [r \in RunIds |->
              AddressExceptions(ExceptionsFor(r, dss[r]), TwoRefs)]
        /\ monthly_submissions = [r \in RunIds |->
              AddressedMonthStates(EnsureMonths(EmptyMonths, StatMonths(dss[r])),
                                   DoubtfulMonths(dss[r]))]
        /\ daily_ops = [r \in RunIds |-> NewDailyState]
        /\ monthly_close = [m \in {} |-> NewCloseState]
        /\ job = [r \in RunIds |-> "idle"]
        /\ executions = Cardinality(RunIds)
        /\ response = [op |-> "address_daily_doubtful", status |-> OK]
        /\ audit_events = RunHistory("run-1", dss["run-1"]) \o RunHistory("run-2", dss["run-2"])
        /\ audit_recorded = TRUE
        /\ calls = [t \in Threads |-> IdleCall]
        /\ NoReconcile

NextConcurrent ==
    \/ \E t \in Threads, run_id \in RunIds, month \in OneMonth :
          _load(t, "mark_monthly_notified", run_id, month)
    \/ \E t \in Threads, run_id \in RunIds, month \in OneMonth :
          _load(t, "create_monthly_journal", run_id, month)
    \/ \E t \in Threads, run_id \in RunIds : _load(t, "close_daily_ops", run_id, "none")
    \/ \E t \in Threads : _save(t)

SpecConcurrent == InitConcurrent /\ [][NextConcurrent]_vars

-----------------------------------------------------------------------------
\* The matching engine (services/agno_api/app/reconciliation.py).
\*
\* A frame is the list of rows standardize_frame() hands over: the numeric
\* columns went through pd.to_numeric(errors="coerce") and hold a number of
\* dtype int or float, or NaN; transaction_date went through pd.to_datetime
\* (errors="coerce") and holds a timestamp, or NaN in place of NaT.

\* rules.FUZZY_WEIGHTS and rules.FUZZY_THRESHOLD, in tenths.
FUZZY_WEIGHTS ==
    [merchant_ref |-> 5, amounts |-> 2, status |-> 1, client_id |-> 1, payment_method |-> 1]

FUZZY_THRESHOLD == 9

\* rules.BACKDATE_WINDOW_DAYS
BACKDATE_WINDOW_DAYS == 3

\* A numeric cell: str() prints an int as "100" and a float as "100.0", and
\* float() keeps the number only.
Num(n, dtype) == [num |-> n, dtype |-> dtype]
NaN == [num |-> 0, dtype |-> "nan"]

\* A transaction_date cell "YYYY-MM-DDTHH:MM:SS", or NaN.
Date(month, day, time) == [month |-> month, day |-> day, time |-> time]
NaT == [month |-> "nan", day |-> 0, time |-> 0]

\* float(a) == float(b): NaN equals nothing, itself included.
FloatEq(a, b) == a.dtype # "nan" /\ b.dtype # "nan" /\ a.num = b.num

\* str(row["transaction_date"])[:10], the date-only part.
DateOnly(d) == [month |-> d.month, day |-> d.day]

\* datetime.fromisoformat(...).date() as a day number (March has 31 days).
DayNumber(d) == IF d.month = "2026-03" THEN d.day ELSE 31 + d.day

\* formatting.date_diff_days: fromisoformat raises ValueError on "nan".
date_diff_raises(a, b) == a = NaT \/ b = NaT

date_diff_days(a, b) ==
    IF DayNumber(a) >= DayNumber(b) THEN DayNumber(a) - DayNumber(b)
    ELSE DayNumber(b) - DayNumber(a)

\* str.upper() on the status values of the frames.
Upper(status) == IF status = "failed" THEN "FAILED" ELSE status

_norm_status(status) ==
    IF status \in {"captured", "confirmed", "settled"} THEN "SUCCESS" ELSE Upper(status)

\* _hash_row: sha256 over the printed key fields; two hashes are equal exactly
\* when the printed fields are.  str(merchant_ref) drops the cell's type.
_hash_row(row) ==
    <<row.merchant_ref.key, row.gross_amount, row.currency, row.processing_fee,
      row.net_payout, DateOnly(row.transaction_date), row.client_id>>

\* _score_fuzzy, in tenths.
_score_fuzzy(a, b) ==
    LET amounts_match ==
            /\ FloatEq(a.gross_amount, b.gross_amount)
            /\ FloatEq(a.processing_fee, b.processing_fee)
            /\ FloatEq(a.net_payout, b.net_payout)
    IN (IF a.merchant_ref = b.merchant_ref THEN FUZZY_WEIGHTS.merchant_ref ELSE 0)
       + (IF amounts_match THEN FUZZY_WEIGHTS.amounts ELSE 0)
       + (IF _norm_status(a.status) = _norm_status(b.status) THEN FUZZY_WEIGHTS.status ELSE 0)
       + (IF a.client_id = b.client_id THEN FUZZY_WEIGHTS.client_id ELSE 0)
       + (IF a.payment_method = b.payment_method THEN FUZZY_WEIGHTS.payment_method ELSE 0)

\* Mutant: a missing rate fails the stage also when the currencies agree.
_fx_can_handle_needs_rate(i, e, p) ==
    /\ \A v \in {i.fx_rate, e.fx_rate, p.fx_rate} : v.dtype # "nan"
    /\ \/ Cardinality({i.currency, e.currency, p.currency}) = 1
       \/ \A v \in {i.fx_rate, e.fx_rate, p.fx_rate} : v.num > 0

_fx_can_handle_rates_only(i, e, p) ==
    /\ \A v \in {i.fx_rate, e.fx_rate, p.fx_rate} : v.dtype # "nan"
    /\ \A v \in {i.fx_rate, e.fx_rate, p.fx_rate} : v.num > 0

_fx_can_handle(i, e, p) ==
    IF Cardinality({i.currency, e.currency, p.currency}) = 1 THEN TRUE
    ELSE /\ \A v \in {i.fx_rate, e.fx_rate, p.fx_rate} : v.dtype # "nan"
         /\ \A v \in {i.fx_rate, e.fx_rate, p.fx_rate} : v.num > 0

\* _month_from_sources: the first present row whose date parses gives the month.
RECURSIVE _month_from_sources(_)
_month_from_sources(rows) ==
    IF rows = <<>> THEN "unknown"
    ELSE IF Head(rows) = <<>> \/ Head(rows)[1].transaction_date = NaT
         THEN _month_from_sources(Tail(rows))
         ELSE Head(rows)[1].transaction_date.month

Min3(a, b, c) ==
    IF a <= b /\ a <= c THEN a ELSE IF b <= c THEN b ELSE c

Max3(a, b, c) ==
    IF a >= b /\ a >= c THEN a ELSE IF b >= c THEN b ELSE c

\* {str(r["merchant_ref"]): r for _, r in df.iterrows()}: the keys of a frame
\* and, per key, its last row (<<>> for idx.get() returning None).
Keys(df) == {df[k].merchant_ref.key : k \in DOMAIN df}

Get(df, ref) ==
    IF ref \in Keys(df)
    THEN LET last == CHOOSE k \in DOMAIN df :
                        /\ df[k].merchant_ref.key = ref
                        /\ \A j \in DOMAIN df : j > k => df[j].merchant_ref.key # ref
         IN <<df[last]>>
    ELSE <<>>

\* sorted(set(...)) over merchant references.
RECURSIVE SortedRefs(_)
SortedRefs(S) ==
    IF S = {} THEN <<>>
    ELSE LET least == CHOOSE x \in S : \A y \in S : x <= y
         IN <<least>> \o SortedRefs(S \ {least})

\* StageResult() as constructed: every flag false.
StageDefaults ==
    [exact_hash |-> FALSE, fuzzy |-> FALSE, three_way |-> FALSE,
     backdated |-> FALSE, fx_handled |-> FALSE]

\* The three pairwise scores of a reference present in all sources.
PairScores(i, e, p) ==
    [internal_vs_erp |-> _score_fuzzy(i, e),
     internal_vs_psp |-> _score_fuzzy(i, p),
     erp_vs_psp |-> _score_fuzzy(e, p)]

\* The fuzzy stage of reconcile: (passes, score).
FuzzyStage_any_pair(exact_hash, scores) ==
    IF ~exact_hash
    THEN [ok |-> \/ scores.internal_vs_erp >= FUZZY_THRESHOLD
                 \/ scores.internal_vs_psp >= FUZZY_THRESHOLD
                 \/ scores.erp_vs_psp >= FUZZY_THRESHOLD,
          score |-> Min3(scores.internal_vs_erp, scores.internal_vs_psp, scores.erp_vs_psp)]
    ELSE [ok |-> TRUE, score |-> 10]

FuzzyStage(exact_hash, scores) ==
    IF ~exact_hash
    THEN [ok |-> /\ scores.internal_vs_erp >= FUZZY_THRESHOLD
                 /\ scores.internal_vs_psp >= FUZZY_THRESHOLD
                 /\ scores.erp_vs_psp >= FUZZY_THRESHOLD,
          score |-> Min3(scores.internal_vs_erp, scores.internal_vs_psp, scores.erp_vs_psp)]
    ELSE [ok |-> TRUE, score |-> 10]

\* Mutant: the three-way token is appended before the fuzzy token.
StageReasons_three_way_first(stage) ==
    (IF ~stage.exact_hash THEN <<"EXACT_HASH_MISMATCH">> ELSE <<>>)
    \o (IF ~stage.three_way THEN <<"THREE_WAY_VALIDATION_FAILED">> ELSE <<>>)
    \o (IF ~stage.fuzzy THEN <<"FUZZY_THRESHOLD_NOT_MET">> ELSE <<>>)
    \o (IF ~stage.backdated THEN <<"BACKDATED_WINDOW_EXCEEDED">> ELSE <<>>)
    \o (IF ~stage.fx_handled THEN <<"FX_DATA_INSUFFICIENT">> ELSE <<>>)

\* The reasons of a reference present in all sources, in the order appended.
StageReasons(stage) ==
    (IF ~stage.exact_hash THEN <<"EXACT_HASH_MISMATCH">> ELSE <<>>)
    \o (IF ~stage.fuzzy THEN <<"FUZZY_THRESHOLD_NOT_MET">> ELSE <<>>)
    \o (IF ~stage.three_way THEN <<"THREE_WAY_VALIDATION_FAILED">> ELSE <<>>)
    \o (IF ~stage.backdated THEN <<"BACKDATED_WINDOW_EXCEEDED">> ELSE <<>>)
    \o (IF ~stage.fx_handled THEN <<"FX_DATA_INSUFFICIENT">> ELSE <<>>)

\* FinalStatus of a reference present in all sources.
FinalOf_exact_hash_suffices(stage) ==
    IF stage.exact_hash \/ (stage.fuzzy /\ stage.three_way /\ stage.backdated /\ stage.fx_handled)
    THEN GOOD ELSE DOUBTFUL

FinalOf(stage) ==
    IF stage.fuzzy /\ stage.three_way /\ stage.backdated /\ stage.fx_handled
    THEN GOOD ELSE DOUBTFUL

\* The loop body of reconcile for a reference with a source missing.
MissingDecision_with_stages(run_id, merchant_ref, oi, oe, op) ==
    [run_id |-> run_id,
     merchant_ref |-> merchant_ref,
     final_status |-> DOUBTFUL,
     reason_codes |-> <<"MISSING_IN_ONE_OR_MORE_SOURCES">>,
     stage_results |-> [StageDefaults EXCEPT !.fx_handled = TRUE],
     transaction_month |-> _month_from_sources(<<oi, oe, op>>),
     fuzzy_score |-> JsonNone,
     backdated_gap_days |-> JsonNone,
     fx_detail |-> "not_applicable_missing_sources",
     sources_present |-> [internal |-> oi # <<>>, erp |-> oe # <<>>, psp |-> op # <<>>],
     pair_scores |-> JsonNone]

MissingDecision(run_id, merchant_ref, oi, oe, op) ==
    [run_id |-> run_id,
     merchant_ref |-> merchant_ref,
     final_status |-> DOUBTFUL,
     reason_codes |-> <<"MISSING_IN_ONE_OR_MORE_SOURCES">>,
     stage_results |-> StageDefaults,
     transaction_month |-> _month_from_sources(<<oi, oe, op>>),
     fuzzy_score |-> JsonNone,
     backdated_gap_days |-> JsonNone,
     fx_detail |-> "not_applicable_missing_sources",
     sources_present |-> [internal |-> oi # <<>>, erp |-> oe # <<>>, psp |-> op # <<>>],
     pair_scores |-> JsonNone]

\* The loop body of reconcile for a reference present in all three sources
\* whose dates parse.
PresentDecision(run_id, merchant_ref, i, e, p) ==
    LET exact_hash == _hash_row(i) = _hash_row(e) /\ _hash_row(e) = _hash_row(p)
        scores == PairScores(i, e, p)
        fuzzy == FuzzyStage(exact_hash, scores)
        amount_check ==
            /\ FloatEq(i.gross_amount, e.gross_amount) /\ FloatEq(e.gross_amount, p.gross_amount)
            /\ FloatEq(i.processing_fee, e.processing_fee)
            /\ FloatEq(e.processing_fee, p.processing_fee)
            /\ FloatEq(i.net_payout, e.net_payout) /\ FloatEq(e.net_payout, p.net_payout)
        identity_check ==
            /\ i.client_id = e.client_id /\ e.client_id = p.client_id
            /\ i.currency = e.currency /\ e.currency = p.currency
            /\ i.bank_country = e.bank_country /\ e.bank_country = p.bank_country
        max_gap == Max3(date_diff_days(i.transaction_date, e.transaction_date),
                        date_diff_days(i.transaction_date, p.transaction_date),
                        date_diff_days(e.transaction_date, p.transaction_date))
        stage == [exact_hash |-> exact_hash,
                  fuzzy |-> fuzzy.ok,
                  three_way |-> amount_check /\ identity_check,
                  backdated |-> max_gap <= BACKDATE_WINDOW_DAYS,
                  fx_handled |-> _fx_can_handle(i, e, p)]
    IN [run_id |-> run_id,
        merchant_ref |-> merchant_ref,
        final_status |-> FinalOf(stage),
        reason_codes |-> StageReasons(stage),
        stage_results |-> stage,
        transaction_month |-> _month_from_sources(<<(<<i>>), (<<e>>), (<<p>>)>>),
        fuzzy_score |-> Json(fuzzy.score),
        backdated_gap_days |-> Json(max_gap),
        fx_detail |-> IF stage.fx_handled THEN "handled" ELSE "insufficient_fx_data",
        sources_present |-> [internal |-> TRUE, erp |-> TRUE, psp |-> TRUE],
        pair_scores |-> Json(scores)]

\* The ExceptionCase appended after each DOUBTFUL decision.  The id is a fresh
\* uuid in the code; the model names a case by its run and reference.
RECURSIVE ExceptionCases_for_all(_)
ExceptionCases_for_all(ds) ==
    IF ds = <<>> THEN <<>>
    ELSE LET d == Head(ds)
         IN <<[id |-> <<d.run_id, d.merchant_ref>>,
               run_id |-> d.run_id,
               merchant_ref |-> d.merchant_ref,
               severity |-> "medium",
               reason_codes |-> IF d.reason_codes = <<>>
                                THEN <<"MANUAL_REVIEW_REQUIRED">> ELSE d.reason_codes,
               state |-> "open"]>> \o ExceptionCases_for_all(Tail(ds))

RECURSIVE ExceptionCases(_)
ExceptionCases(ds) ==
    IF ds = <<>> THEN <<>>
    ELSE LET d == Head(ds)
             rest == ExceptionCases(Tail(ds))
         IN IF d.final_status = DOUBTFUL
            THEN <<[id |-> <<d.run_id, d.merchant_ref>>,
                    run_id |-> d.run_id,
                    merchant_ref |-> d.merchant_ref,
                    severity |-> "medium",
                    reason_codes |-> IF d.reason_codes = <<>>
                                     THEN <<"MANUAL_REVIEW_REQUIRED">> ELSE d.reason_codes,
                    state |-> "open"]>> \o rest
            ELSE rest

\* Whether the three lookups of a reference found a row each.
AllPresent(oi, oe, op) == oi # <<>> /\ oe # <<>> /\ op # <<>>

\* reconcile raises ValueError out of date_diff_days when a reference present
\* in all three sources has a transaction_date that did not parse; nothing in
\* the loop catches it.
reconcile_raises(internal_df, erp_df, psp_df) ==
    \E ref \in Keys(psp_df) \cup Keys(erp_df) \cup Keys(internal_df) :
        LET oi == Get(internal_df, ref)
            oe == Get(erp_df, ref)
            op == Get(psp_df, ref)
        IN /\ AllPresent(oi, oe, op)
           /\ \/ date_diff_raises(oi[1].transaction_date, oe[1].transaction_date)
              \/ date_diff_raises(oi[1].transaction_date, op[1].transaction_date)
              \/ date_diff_raises(oe[1].transaction_date, op[1].transaction_date)

\* reconcile(run_id, internal_df, erp_df, psp_df): the ValidationResult, or
\* the ValueError it raised.
reconcile(run_id, internal_df, erp_df, psp_df) ==
    IF reconcile_raises(internal_df, erp_df, psp_df)
    THEN [status |-> ValueError, decisions |-> <<>>, exceptions |-> <<>>]
    ELSE LET all_refs == SortedRefs(Keys(psp_df) \cup Keys(erp_df) \cup Keys(internal_df))
             ds == [k \in 1..Len(all_refs) |->
                      LET ref == all_refs[k]
                          oi == Get(internal_df, ref)
                          oe == Get(erp_df, ref)
                          op == Get(psp_df, ref)
                      IN IF AllPresent(oi, oe, op)
                         THEN PresentDecision(run_id, ref, oi[1], oe[1], op[1])
                         ELSE MissingDecision(run_id, ref, oi, oe, op)]
         IN [status |-> OK, decisions |-> ds, exceptions |-> ExceptionCases(ds)]

\* _build_monthly_summaries_from_data: the sources a doubtful decision's trace
\* reports as not present, in the order internal, erp, psp.
missing_sources(d) ==
    SelectSeq(<<"internal", "erp", "psp">>, LAMBDA s : d.sources_present[s] = FALSE)

InSeq(x, s) == \E k \in DOMAIN s : s[k] = x

\* sorted(recipients) over the four recipient keys.
RecipientsInOrder ==
    <<"cashier_erp", "internal_backoffice", "psp_provider", "reconciliation_ops">>

\* Storage._derive_alert_recipients
_derive_alert_recipients(missing) ==
    LET named == (IF InSeq("psp", missing) THEN {"psp_provider"} ELSE {})
                 \cup (IF InSeq("internal", missing) THEN {"internal_backoffice"} ELSE {})
                 \cup (IF InSeq("erp", missing) THEN {"cashier_erp"} ELSE {})
        recipients == IF named = {} THEN {"reconciliation_ops"} ELSE named
    IN SelectSeq(RecipientsInOrder, LAMBDA r : r \in recipients)

\* The doubtful decisions of a month, in stored order.
DoubtfulOf(ds, month) ==
    SelectSeq(ds, LAMBDA d : d.final_status = DOUBTFUL /\ d.transaction_month = month)

\* recipients_by_month[month]: a dict keeps its keys in insertion order.
RECURSIVE AppendNew(_, _)
AppendNew(acc, items) ==
    IF items = <<>> THEN acc
    ELSE AppendNew(IF InSeq(Head(items), acc) THEN acc ELSE Append(acc, Head(items)),
                   Tail(items))

RECURSIVE RecipientKeys(_)
RecipientKeys(ds) ==
    IF ds = <<>> THEN <<>>
    ELSE AppendNew(RecipientKeys(SubSeq(ds, 1, Len(ds) - 1)),
                   _derive_alert_recipients(missing_sources(ds[Len(ds)])))

RecipientRefs(ds, recipient) ==
    {ds[k].merchant_ref : k \in {j \in DOMAIN ds :
        InSeq(recipient, _derive_alert_recipients(missing_sources(ds[j])))}}

\* sorted(items, key=lambda x: len(x[1]), reverse=True): a stable sort, the
\* keys of equal count keep their insertion order.
RECURSIVE ByCountFrom(_, _, _)
ByCountFrom(keys, count, c) ==
    IF c = 0 THEN <<>>
    ELSE SelectSeq(keys, LAMBDA r : count[r] = c) \o ByCountFrom(keys, count, c - 1)

SortByCount_insertion_order(keys, count, most) == keys

SortByCount(keys, count, most) == ByCountFrom(keys, count, most)

\* MonthlySubmissionSummary.alert_recipients of a month.
alert_recipients(ds, month) ==
    LET doubtful == DoubtfulOf(ds, month)
        keys == RecipientKeys(doubtful)
        refs == [r \in {keys[k] : k \in DOMAIN keys} |-> RecipientRefs(doubtful, r)]
        count == [r \in DOMAIN refs |-> Cardinality(refs[r])]
        ordered == SortByCount(keys, count, Len(doubtful))
    IN [k \in DOMAIN ordered |->
          [recipient_key |-> ordered[k],
           count |-> count[ordered[k]],
           merchant_refs |-> SortedRefs(refs[ordered[k]])]]

\* The frames of the matching specification.  Reference 1 is the reference
\* under study, reference 2 is present or absent per source, references 3 to 6
\* are consistent in every source.  The rows are listed in descending
\* reference order, and the internal frame starts with a superseded row of
\* reference 3.
Sources == {"internal", "erp", "psp"}

ConsistentRefs == {3, 4, 5, 6}

BaseRow(ref) ==
    [merchant_ref |-> [key |-> ref, dtype |-> "str"],
     gross_amount |-> Num(100, "float"),
     currency |-> "USD",
     processing_fee |-> Num(2, "float"),
     net_payout |-> Num(98, "float"),
     transaction_date |-> Date("2026-03", 30, 0),
     client_id |-> "C1",
     status |-> "captured",
     payment_method |-> "card",
     bank_country |-> "MY",
     fx_rate |-> Num(1, "float")]

\* The rows a source may hold for the reference under study.
RowVariants(ref) ==
    LET base == BaseRow(ref)
    IN {base,
        [base EXCEPT !.merchant_ref.dtype = "int"],
        [base EXCEPT !.gross_amount = Num(100, "int")],
        [base EXCEPT !.gross_amount = Num(120, "float")],
        [base EXCEPT !.gross_amount = NaN],
        [base EXCEPT !.processing_fee = Num(3, "float")],
        [base EXCEPT !.currency = "EUR"],
        [base EXCEPT !.currency = "EUR", !.fx_rate = NaN],
        [base EXCEPT !.fx_rate = Num(0, "float")],
        [base EXCEPT !.transaction_date = Date("2026-03", 30, 1)],
        [base EXCEPT !.transaction_date = Date("2026-04", 2, 0)],
        [base EXCEPT !.transaction_date = Date("2026-04", 3, 0)],
        [base EXCEPT !.transaction_date = NaT],
        [base EXCEPT !.client_id = "C2"],
        [base EXCEPT !.status = "settled"],
        [base EXCEPT !.status = "failed"],
        [base EXCEPT !.payment_method = "bank"],
        [base EXCEPT !.status = "failed", !.payment_method = "bank"],
        [base EXCEPT !.bank_country = "SG"]}

Optional(S) == {<<>>} \cup {<<x>> : x \in S}

Frame(source, first, second) ==
    (IF source = "internal"
     THEN <<[BaseRow(3) EXCEPT !.gross_amount = Num(120, "float")]>> ELSE <<>>)
    \o <<BaseRow(6), BaseRow(5), BaseRow(4), BaseRow(3)>>
    \o second \o first

\* standardize_frame: the frame is accepted when at most a fifth of its rows
\* hold a numeric or date cell that did not coerce (confidence >= 0.8).
standardize_frame_ok(df) ==
    LET bad == Cardinality({k \in DOMAIN df :
                   \/ df[k].gross_amount = NaN \/ df[k].processing_fee = NaN
                   \/ df[k].net_payout = NaN \/ df[k].transaction_date = NaT})
    IN 5 * bad <= Len(df)

NoValidation == [status |-> "none", decisions |-> <<>>, exceptions |-> <<>>]

InitReconcile ==
    /\ StoreInit
    /\ audit_recorded = FALSE
    /\ validation = NoValidation
    /\ \E first \in [Sources -> Optional(RowVariants(1))],
          second \in [Sources -> Optional({BaseRow(2)})] :
          /\ sources = [s \in Sources |-> Frame(s, first[s], second[s])]
          /\ \A s \in Sources : standardize_frame_ok(sources[s])

\* execute_reconciliation's call of reconcile on the three parsed frames.
execute_reconcile(run_id) ==
    /\ validation = NoValidation
    /\ validation' = reconcile(run_id, sources.internal, sources.erp, sources.psp)
    /\ UNCHANGED <<runs, decisions, exceptions, monthly_submissions, daily_ops,
                   monthly_close, job, executions, response, audit_events,
                   audit_recorded, calls, sources>>

NextReconcile == \E run_id \in OneRun : execute_reconcile(run_id)

SpecReconcile == InitReconcile /\ [][NextReconcile]_vars

-----------------------------------------------------------------------------
\* Properties.

\* Counters of a run x month read off the stored decisions and exceptions.
DecisionsIn(run_id, month) ==
    {i \in Indices(decisions[run_id]) : decisions[run_id][i].transaction_month = month}

GoodIn(run_id, month) ==
    {i \in DecisionsIn(run_id, month) : decisions[run_id][i].final_status = GOOD}

DoubtfulIn(run_id, month) ==
    {i \in DecisionsIn(run_id, month) : decisions[run_id][i].final_status = DOUBTFUL}

\* A doubtful decision is unresolved when no exception case of its reference
\* is verified, approved or resolved.
UnresolvedIn(run_id, month) ==
    {i \in DoubtfulIn(run_id, month) :
        \A k \in Indices(exceptions[run_id]) :
            exceptions[run_id][k].merchant_ref = decisions[run_id][i].merchant_ref
                => exceptions[run_id][k].state \notin {"verified", "approved", "resolved"}}

Buckets == {<<r, m>> \in RunIds \X TxnMonths : m \in SummaryMonths(r)}

\* C1: in every reachable state, every run x month summary has
\* ready_for_submission true iff the month holds at least one transaction and
\* no unresolved doubtful transaction, whatever handlers were called before.
C1_ReadyIffTotalAndNoUnresolved ==
    \A b \in Buckets :
        get_monthly_submission(b[1], b[2]).ready_for_submission
            <=> (DecisionsIn(b[1], b[2]) # {} /\ UnresolvedIn(b[1], b[2]) = {})

\* C1 witness: a month that went through address, notify, journal and submit
\* and is ready.
C1_Witness ==
    \E b \in Buckets :
        LET summary == get_monthly_submission(b[1], b[2])
        IN /\ summary.ready_for_submission
           /\ summary.doubtful_transactions > 0
           /\ summary.notified_to_source
           /\ summary.journal_created
           /\ summary.submitted_to_erp

\* C2 as claimed: in every reachable state a submitted run x month with good
\* transactions has its journal created.
C2_SubmittedImpliesJournal ==
    \A b \in Buckets :
        LET summary == get_monthly_submission(b[1], b[2])
        IN (summary.submitted_to_erp /\ summary.good_transactions > 0)
              => summary.journal_created

\* C2, the state the claim excludes, at rest after a second reconciliation:
\* the run is completed, no reconciliation is under way, the month is
\* submitted, holds a good transaction and has no journal.
C2_ReconciledAgainState ==
    \E b \in Buckets :
        LET summary == get_monthly_submission(b[1], b[2])
        IN /\ job[b[1]] = "idle"
           /\ runs[b[1]].status = COMPLETED
           /\ summary.submitted_to_erp
           /\ summary.good_transactions > 0
           /\ ~summary.journal_created

\* C3 as claimed: in every reachable state a submitted monthly close batch
\* with good transactions has its journal created, also after further runs of
\* the month were closed.
C3_BatchSubmittedImpliesJournal ==
    \A m \in BatchMonths :
        LET batch == get_monthly_close_batch(m)
        IN (batch.submitted_to_erp /\ batch.good_transactions > 0)
              => batch.journal_created

\* C3, the state the claim excludes, reached without any run reconciled twice:
\* two closed runs, each reconciled once, in a submitted batch with a good
\* transaction and no journal.
C3_LaterRunState ==
    /\ executions = 2
    /\ \E m \in BatchMonths :
          LET batch == get_monthly_close_batch(m)
          IN /\ batch.source_run_count = 2
             /\ batch.submitted_to_erp
             /\ batch.good_transactions > 0
             /\ ~batch.journal_created

\* The daily summary of a run that exists.
DailySummary(r) == _build_daily_ops_summary_from_data(r)

\* A summary field F of run r is read through the operator the summary takes
\* it from: unresolved_doubtful is DailyUnresolved(r), notifications_sent and
\* notifications_required are the operators of those names, close_state is
\* DailyState(r).close_state, closed_at is daily_ops[r].closed_at and
\* run_status is runs[r].status.

\* The step answers a call of the handler named op.
Answers(op) == response'.op = op

\* The conditions C4 names for ready_to_close, read off the daily summary.
CloseConditions(r) ==
    /\ daily_ops[r].closed_at = None
    /\ runs[r].status = COMPLETED
    /\ DailyUnresolved(r) = 0
    /\ notifications_sent(r) = notifications_required(r)

\* C4: a close_daily_ops call on a run sets closed_at exactly when the run is
\* not closed, completed, without unresolved doubtful transactions and with
\* every required notification sent; any other call is answered with a
\* validation error and closed_at keeps its value.
C4_CloseOnlyWhenReady ==
    [][\A r \in DOMAIN runs :
          (Answers("close_daily_ops") /\ close_daily_ops(r)) =>
              IF CloseConditions(r)
              THEN /\ response' = [op |-> "close_daily_ops", status |-> OK]
                   /\ daily_ops'[r].closed_at # None
              ELSE /\ response' = [op |-> "close_daily_ops", status |-> ValueError]
                   /\ daily_ops'[r].closed_at = daily_ops[r].closed_at]_vars

\* C4 witness: a run with doubtful transactions closed by close_daily_ops.
C4_Witness ==
    /\ response = [op |-> "close_daily_ops", status |-> OK]
    /\ \E r \in DOMAIN runs :
          /\ DailySummary(r).close_state = "closed"
          /\ DailySummary(r).doubtful_transactions > 0
          /\ DailySummary(r).notifications_required = 2

\* The runs whose daily close_state is closed and that have a bucket for the month.
ClosedRunsWith(month) ==
    {r \in DOMAIN runs :
        DailyState(r).close_state = "closed" /\ month \in SummaryMonths(r)}

\* C5: a batch's source_run_ids is exactly the closed runs with a bucket for
\* the month, its counters are the sums of those runs' monthly counters, and a
\* run that is not closed is in no batch.
C5_BatchIsClosedRuns ==
    \A m \in BatchMonths :
        LET batch == get_monthly_close_batch(m)
            src == ClosedRunsWith(m)
        IN /\ batch.source_run_ids = src
           /\ batch.source_run_count = Cardinality(src)
           /\ batch.total_transactions =
                 SumOver(src, [r \in src |-> Cardinality(DecisionsIn(r, m))])
           /\ batch.good_transactions =
                 SumOver(src, [r \in src |-> Cardinality(GoodIn(r, m))])
           /\ batch.doubtful_transactions =
                 SumOver(src, [r \in src |-> Cardinality(DoubtfulIn(r, m))])
           /\ \A r \in DOMAIN runs :
                 DailyState(r).close_state # "closed" => r \notin batch.source_run_ids

\* C5 witness: a batch built from one closed run while another run with
\* transactions in the month is still open.
C5_Witness ==
    \E m \in BatchMonths, r \in DOMAIN runs :
        /\ get_monthly_close_batch(m).source_run_count = 1
        /\ get_monthly_close_batch(m).total_transactions = 1
        /\ r \notin get_monthly_close_batch(m).source_run_ids
        /\ DecisionsIn(r, m) # {}

\* The steps of C6 that hold whatever was notified before: close_daily_ops is
\* refused while a doubtful transaction is unresolved or a month with doubtful
\* transactions is not notified; address_daily_doubtful leaves nothing
\* unresolved; notify_daily_ops on an addressed run leaves no notification
\* outstanding; close_daily_ops on an addressed and notified open run closes it.
DailyOrderSteps(r) ==
    runs[r].status = COMPLETED =>
      /\ (Answers("close_daily_ops") /\ close_daily_ops(r)) =>
            /\ DailyUnresolved(r) > 0 => response'.status = ValueError
            /\ notifications_sent(r) < notifications_required(r)
                  => response'.status = ValueError
            /\ CloseConditions(r)
                  => (response'.status = OK /\ DailyState(r)'.close_state = "closed")
      /\ (Answers("address_daily_doubtful") /\ address_daily_doubtful(r)) =>
            (response'.status = OK /\ DailyUnresolved(r)' = 0)
      /\ (/\ Answers("notify_daily_ops")
          /\ notify_daily_ops(r)
          /\ DailyUnresolved(r) = 0) =>
            /\ response'.status = OK
            /\ notifications_sent(r)' = notifications_required(r)'

\* C6 as claimed: on a completed run with an unresolved doubtful transaction
\* notify_daily_ops and close_daily_ops are refused with a validation error,
\* close_daily_ops is refused until the notifications are sent, and address,
\* notify, close in that order end with the run closed.
C6_DailyOrder ==
    [][\A r \in DOMAIN runs :
          /\ DailyOrderSteps(r)
          /\ (/\ Answers("notify_daily_ops")
              /\ notify_daily_ops(r)
              /\ runs[r].status = COMPLETED
              /\ DailyUnresolved(r) > 0)
                => response'.status = ValueError]_vars

\* C6 amended: the same, with notify_daily_ops refused when a month that has
\* doubtful transactions and is not yet notified still has an unresolved one.
C6_DailyOrderUnnotified ==
    [][\A r \in DOMAIN runs :
          /\ DailyOrderSteps(r)
          /\ (/\ Answers("notify_daily_ops")
              /\ notify_daily_ops(r)
              /\ runs[r].status = COMPLETED
              /\ \E m \in SummaryMonths(r) :
                    /\ UnresolvedIn(r, m) # {}
                    /\ ~MonthStateOf(monthly_submissions[r], m).notified_to_source)
                => response'.status = ValueError]_vars

\* C6 witness: a run with doubtful transactions in two months, addressed,
\* notified and then closed by close_daily_ops.
C6_Witness ==
    /\ response = [op |-> "close_daily_ops", status |-> OK]
    /\ \E r \in DOMAIN runs :
          /\ DailySummary(r).close_state = "closed"
          /\ DailySummary(r).addressed_doubtful = 2
          /\ \A m \in SummaryMonths(r) :
                /\ monthly_submissions[r][m].doubtful_addressed_at # None
                /\ monthly_submissions[r][m].notified_to_source

\* C7 as claimed: revert_monthly_close_submission on a submitted batch clears
\* both flags and both timestamps and leaves the batch at next_action
\* create_journal.
C7_RevertReturnsToCreateJournal ==
    [][\A m \in BatchMonths :
          (/\ Answers("revert_monthly_close_submission")
           /\ get_monthly_close_batch(m).submitted_to_erp
           /\ revert_monthly_close_submission(m))
          => /\ ~get_monthly_close_batch(m)'.submitted_to_erp
             /\ ~get_monthly_close_batch(m)'.journal_created
             /\ get_monthly_close_batch(m)'.submitted_at = None
             /\ get_monthly_close_batch(m)'.journal_created_at = None
             /\ get_monthly_close_batch(m)'.next_action = "create_journal"]_vars

\* C7, the state the claim excludes, reached with one reconciliation of one
\* run: the revert has just succeeded and the batch waits for the daily close.
C7_RevertedNotReadyState ==
    /\ response = [op |-> "revert_monthly_close_submission", status |-> OK]
    /\ executions = 1
    /\ \A r \in DOMAIN runs : job[r] = "idle"
    /\ \E m \in BatchMonths :
          /\ ~get_monthly_close_batch(m).submitted_to_erp
          /\ get_monthly_close_batch(m).next_action = "wait_for_daily_close"

\* C8: a call of address_monthly_doubtful that directly follows a successful
\* call on the same run and month changes no exception state and returns the
\* summary the first call returned.  (SpecMonthly has one run x month, so the
\* last response names the call on it; the job of the run is idle, so no step
\* of a reconciliation came in between.)
C8_AddressIdempotent ==
    [][\A r \in OneRun, m \in OneMonth :
          (/\ response = [op |-> "address_monthly_doubtful", status |-> OK]
           /\ job[r] = "idle"
           /\ address_monthly_doubtful(r, m))
          => /\ exceptions' = exceptions
             /\ response' = response
             /\ get_monthly_submission(r, m)' = get_monthly_submission(r, m)]_vars

\* C8 witness: the state a first call leaves, with two cases it verified.
C8_Witness ==
    /\ response = [op |-> "address_monthly_doubtful", status |-> OK]
    /\ \A r \in RunIds : job[r] = "idle"
    /\ \E b \in Buckets :
          /\ get_monthly_submission(b[1], b[2]).addressed_doubtful = 2
          /\ \A i \in Indices(exceptions[b[1]]) : exceptions[b[1]][i].state = "verified"
          /\ monthly_submissions[b[1]][b[2]].doubtful_addressed_at # None

\* The precedence C9 names, read off a summary's own fields.
NextActionByPrecedence(summary) ==
    CASE summary.submitted_to_erp -> "completed"
      [] ~summary.submitted_to_erp /\ ~summary.ready_for_submission -> "address_doubtful"
      [] OTHER ->
            IF summary.doubtful_transactions > 0 /\ ~summary.notified_to_source
            THEN "notify_sources"
            ELSE IF summary.good_transactions > 0 /\ ~summary.journal_created
            THEN "create_journal"
            ELSE "submit_to_erp"

\* C9: every run x month summary's next_action is the first match of:
\* submitted gives completed, not ready gives address_doubtful, doubtful and
\* not notified gives notify_sources, good and no journal gives
\* create_journal, otherwise submit_to_erp.
C9_NextActionPrecedence ==
    \A b \in Buckets :
        get_monthly_submission(b[1], b[2]).next_action
            = NextActionByPrecedence(get_monthly_submission(b[1], b[2]))

\* C9 witness: a ready month with a good and a doubtful transaction, neither
\* notified nor journaled: the notification comes first.
C9_Witness ==
    \E b \in Buckets :
        LET summary == get_monthly_submission(b[1], b[2])
        IN /\ summary.ready_for_submission
           /\ summary.good_transactions > 0
           /\ summary.doubtful_transactions > 0
           /\ ~summary.notified_to_source
           /\ ~summary.journal_created
           /\ ~summary.submitted_to_erp
           /\ summary.next_action = "notify_sources"

C11_JournalNeedsReadyAndGood ==
    [][\A b \in Buckets :
          (Answers("create_monthly_journal") /\ create_monthly_journal(b[1], b[2])) =>
              LET summary == get_monthly_submission(b[1], b[2])
              IN IF summary.ready_for_submission /\ summary.good_transactions > 0
                 THEN /\ response'.status = OK
                      /\ get_monthly_submission(b[1], b[2])'.journal_created
                 ELSE /\ response'.status = ValueError
                      /\ get_monthly_submission(b[1], b[2])'.journal_created
                            = summary.journal_created]_vars

\* C11 witness: the refusal on a ready month that holds no good transaction.
C11_Witness ==
    /\ response = [op |-> "create_monthly_journal", status |-> ValueError]
    /\ \E b \in Buckets :
          /\ get_monthly_submission(b[1], b[2]).ready_for_submission
          /\ get_monthly_submission(b[1], b[2]).good_transactions = 0
          /\ ~get_monthly_submission(b[1], b[2]).journal_created

\* C12: a submit_monthly_to_erp call on a bucket is answered with a validation
\* error when the month is not ready_for_submission, and when it holds a good
\* transaction and has no journal; a ready month without good transactions is
\* submitted with no journal.  A refused call leaves submitted_to_erp as it was.
C12_SubmitGuards ==
    [][\A b \in Buckets :
          (Answers("submit_monthly_to_erp") /\ submit_monthly_to_erp(b[1], b[2])) =>
              LET summary == get_monthly_submission(b[1], b[2])
                  refused == /\ response'.status = ValueError
                             /\ get_monthly_submission(b[1], b[2])'.submitted_to_erp
                                   = summary.submitted_to_erp
              IN /\ ~summary.ready_for_submission => refused
                 /\ (summary.good_transactions > 0 /\ ~summary.journal_created) => refused
                 /\ (summary.ready_for_submission /\ summary.good_transactions = 0)
                       => /\ response'.status = OK
                          /\ get_monthly_submission(b[1], b[2])'.submitted_to_erp
                          /\ get_monthly_submission(b[1], b[2])'.journal_created
                                = summary.journal_created]_vars

\* C12 witness: a month of doubtful transactions only, submitted with no journal.
C12_Witness ==
    /\ response = [op |-> "submit_monthly_to_erp", status |-> OK]
    /\ \E b \in Buckets :
          /\ get_monthly_submission(b[1], b[2]).submitted_to_erp
          /\ get_monthly_submission(b[1], b[2]).good_transactions = 0
          /\ get_monthly_submission(b[1], b[2]).doubtful_transactions = 2
          /\ ~get_monthly_submission(b[1], b[2]).journal_created

\* The flags a batch shows are the stored ones; they are as before the step.
CloseFlagsKept(m) ==
    /\ CloseStateOf(m)'.journal_created = CloseStateOf(m).journal_created
    /\ CloseStateOf(m)'.submitted_to_erp = CloseStateOf(m).submitted_to_erp

\* C13: on a batch that is not ready_for_erp create_monthly_close_journal and
\* submit_monthly_close_to_erp are answered with a validation error, so is
\* submit_monthly_close_to_erp on a batch with a good transaction and no
\* journal, and a call answered with an error leaves both flags as they were.
C13_CloseGuards ==
    [][(Answers("create_monthly_close_journal") \/ Answers("submit_monthly_close_to_erp")) =>
          \A m \in BatchMonths :
             LET batch == get_monthly_close_batch(m)
             IN /\ create_monthly_close_journal(m) =>
                      /\ ~batch.ready_for_erp => response'.status = ValueError
                      /\ response'.status # OK => CloseFlagsKept(m)
                /\ submit_monthly_close_to_erp(m) =>
                      /\ ~batch.ready_for_erp => response'.status = ValueError
                      /\ (batch.good_transactions > 0 /\ ~batch.journal_created)
                            => response'.status = ValueError
                      /\ response'.status # OK => CloseFlagsKept(m)]_vars

\* C13 witness: create_monthly_close_journal refused on a batch that holds a
\* good transaction and is not ready.
C13_Witness ==
    /\ response = [op |-> "create_monthly_close_journal", status |-> ValueError]
    /\ \E m \in BatchMonths :
          /\ ~get_monthly_close_batch(m).ready_for_erp
          /\ get_monthly_close_batch(m).good_transactions > 0
          /\ ~get_monthly_close_batch(m).journal_created

\* The precedence C15 names, read off a daily summary's own fields.
CloseStateByPrecedence(summary) ==
    IF summary.closed_at # None THEN <<"closed", "closed">>
    ELSE IF summary.run_status # COMPLETED THEN <<"open", "wait_run_completion">>
    ELSE IF summary.unresolved_doubtful > 0 THEN <<"open", "address_doubtful">>
    ELSE IF summary.notifications_sent < summary.notifications_required
    THEN <<"open", "send_notifications">>
    ELSE <<"ready_to_close", "close_day">>

\* C15: every run's daily close_state and next_action are the first match of:
\* closed_at set gives closed, status not completed gives open and
\* wait_run_completion, unresolved doubtful gives open and address_doubtful,
\* notifications outstanding gives open and send_notifications, otherwise
\* ready_to_close and close_day.
C15_DailyPrecedence ==
    \A r \in DOMAIN runs :
        LET summary == DailySummary(r)
        IN <<summary.close_state, summary.next_action>> = CloseStateByPrecedence(summary)

\* C15 witness: a run under reconciliation with an unresolved doubtful
\* transaction: the run status decides.
C15_Witness ==
    \E r \in DOMAIN runs :
        /\ DailySummary(r).run_status = RUNNING
        /\ DailySummary(r).unresolved_doubtful > 0
        /\ DailySummary(r).notifications_sent < DailySummary(r).notifications_required
        /\ DailySummary(r).next_action = "wait_run_completion"

\* C17: in every reachable state a batch's ready_for_erp is true iff it has a
\* contributing closed run and none of its contributing runs has an
\* unresolved doubtful transaction in the month.
C17_ReadyForErpIff ==
    \A m \in BatchMonths :
        LET src == ClosedRunsWith(m)
        IN get_monthly_close_batch(m).ready_for_erp
              <=> (src # {} /\ \A r \in src : UnresolvedIn(r, m) = {})

\* C17 witness: a batch of two closed runs that is not ready, one of its runs
\* having an unresolved doubtful transaction.
C17_Witness ==
    \E m \in BatchMonths :
        /\ get_monthly_close_batch(m).source_run_count = 2
        /\ ~get_monthly_close_batch(m).ready_for_erp
        /\ \E r \in ClosedRunsWith(m) : UnresolvedIn(r, m) = {}
        /\ \E r \in ClosedRunsWith(m) : UnresolvedIn(r, m) # {}

\* The precedence C18 names, read off a batch's own fields.
CloseActionByPrecedence(batch) ==
    IF batch.submitted_to_erp THEN "completed"
    ELSE IF ~batch.ready_for_erp THEN "wait_for_daily_close"
    ELSE IF ~batch.journal_created THEN "create_journal"
    ELSE "submit_to_erp"

\* C18: every batch's next_action is the first match of: submitted gives
\* completed, not ready gives wait_for_daily_close, no journal gives
\* create_journal, otherwise submit_to_erp.
C18_CloseNextActionPrecedence ==
    \A m \in BatchMonths :
        LET batch == get_monthly_close_batch(m)
        IN batch.next_action = CloseActionByPrecedence(batch)

\* C18 witness: a batch with its journal that lost readiness: it waits for the
\* daily close.
C18_Witness ==
    \E m \in BatchMonths :
        /\ get_monthly_close_batch(m).journal_created
        /\ ~get_monthly_close_batch(m).submitted_to_erp
        /\ ~get_monthly_close_batch(m).ready_for_erp
        /\ get_monthly_close_batch(m).next_action = "wait_for_daily_close"

\* The months of a run with doubtful transactions and no notification yet.
UnnotifiedDoubtfulMonths(r) ==
    {m \in SummaryMonths(r) :
        /\ DoubtfulIn(r, m) # {}
        /\ ~MonthStateOf(monthly_submissions[r], m).notified_to_source}

\* C16: notify_daily_ops is all-or-nothing: when a month with doubtful
\* transactions and no notification still has an unresolved one the call is
\* refused and no month's notified_to_source changes; otherwise every such
\* month is notified afterwards.
C16_NotifyAllOrNothing ==
    [][Answers("notify_daily_ops") =>
         \A r \in DOMAIN runs : notify_daily_ops(r) =>
            IF \E m \in UnnotifiedDoubtfulMonths(r) : UnresolvedIn(r, m) # {}
            THEN /\ response'.status = ValueError
                 /\ \A m \in SummaryMonths(r) :
                       MonthStateOf(monthly_submissions'[r], m).notified_to_source
                         = MonthStateOf(monthly_submissions[r], m).notified_to_source
            ELSE /\ response'.status = OK
                 /\ \A m \in UnnotifiedDoubtfulMonths(r) :
                       MonthStateOf(monthly_submissions'[r], m).notified_to_source]_vars

\* C16 witness: a refused notify_daily_ops on a run with two months of
\* doubtful transactions, one addressed and one not, neither notified.
C16_Witness ==
    /\ response = [op |-> "notify_daily_ops", status |-> ValueError]
    /\ \E r \in DOMAIN runs :
          /\ Cardinality(UnnotifiedDoubtfulMonths(r)) = 2
          /\ \E m \in UnnotifiedDoubtfulMonths(r) : UnresolvedIn(r, m) = {}
          /\ \E m \in UnnotifiedDoubtfulMonths(r) : UnresolvedIn(r, m) # {}

\* The step appends exactly one entry, with this actor and these states
\* before and after.
AppendsEntry(actor, before, after) ==
    /\ Len(audit_events') = Len(audit_events) + 1
    /\ SubSeq(audit_events', 1, Len(audit_events)) = audit_events
    /\ audit_events'[Len(audit_events')].actor_id = actor
    /\ audit_events'[Len(audit_events')].before_json = Json(before)
    /\ audit_events'[Len(audit_events')].after_json = Json(after)

\* The entry a successful address_monthly_doubtful owes.
AddressAudited(r, m) ==
    (Answers("address_monthly_doubtful") /\ address_monthly_doubtful(r, m)) =>
        AppendsEntry("analyst", MonthStateOf(monthly_submissions[r], m),
                     MonthStateOf(monthly_submissions'[r], m))

\* The entries the successful flag handlers of the three scopes owe.
FlagsAudited(r, m) ==
    /\ (Answers("mark_monthly_notified") /\ mark_monthly_notified(r, m)) =>
          AppendsEntry("analyst", MonthStateOf(monthly_submissions[r], m),
                       MonthStateOf(monthly_submissions'[r], m))
    /\ (Answers("create_monthly_journal") /\ create_monthly_journal(r, m)) =>
          AppendsEntry("supervisor", MonthStateOf(monthly_submissions[r], m),
                       MonthStateOf(monthly_submissions'[r], m))
    /\ (Answers("submit_monthly_to_erp") /\ submit_monthly_to_erp(r, m)) =>
          AppendsEntry("admin", MonthStateOf(monthly_submissions[r], m),
                       MonthStateOf(monthly_submissions'[r], m))
    /\ (Answers("set_daily_business_date")
          /\ \E d \in BusinessDates : set_daily_business_date(r, d)) =>
          AppendsEntry("analyst", daily_ops[r], daily_ops'[r])
    /\ (Answers("close_daily_ops") /\ close_daily_ops(r)) =>
          AppendsEntry("supervisor", daily_ops[r], daily_ops'[r])
    /\ (Answers("create_monthly_close_journal") /\ create_monthly_close_journal(m)) =>
          AppendsEntry("supervisor", CloseStateOf(m), CloseStateOf(m)')
    /\ (Answers("submit_monthly_close_to_erp") /\ submit_monthly_close_to_erp(m)) =>
          AppendsEntry("admin", CloseStateOf(m), CloseStateOf(m)')

\* C14: every successful address, notify, create journal and submit at run x
\* month scope, set business date and close at run scope, create journal and
\* submit at monthly close scope appends an audit entry with the actor and
\* the scope's state before and after the change, and every step leaves the
\* entries already in the log in place.
C14_AuditBeforeAfter ==
    [][/\ Len(audit_events') >= Len(audit_events)
       /\ SubSeq(audit_events', 1, Len(audit_events)) = audit_events
       /\ response'.status = OK =>
             \A r \in OneRun, m \in OneMonth :
                AddressAudited(r, m) /\ FlagsAudited(r, m)]_vars

\* C14 witness: address_monthly_doubtful verified a case and stamped the
\* month, and the entry it appended has no before state and no month state.
C14_AddressEntryState ==
    /\ response = [op |-> "address_monthly_doubtful", status |-> OK]
    /\ Len(audit_events) > 0
    /\ audit_events[Len(audit_events)].action = "monthly_address_doubtful"
    /\ audit_events[Len(audit_events)].actor_id = "analyst"
    /\ audit_events[Len(audit_events)].before_json = JsonNone
    /\ audit_events[Len(audit_events)].after_json
          = Json([month |-> "2026-03", updated_exceptions |-> 1])
    /\ monthly_submissions["run-1"]["2026-03"].doubtful_addressed_at = Stamp

\* Two calls that both returned a value.
BothReturned(t, u) ==
    /\ t # u
    /\ calls[t].pc = "returned" /\ calls[t].status = OK
    /\ calls[u].pc = "returned" /\ calls[u].status = OK

\* The stored document shows the change of a returned call: its flag is set
\* and its audit entry is in the log.
ChangePresent(c) ==
    /\ CASE c.op = "mark_monthly_notified" ->
               MonthStateOf(monthly_submissions[c.run_id], c.month).notified_to_source
         [] c.op = "create_monthly_journal" ->
               MonthStateOf(monthly_submissions[c.run_id], c.month).journal_created
         [] c.op = "close_daily_ops" -> daily_ops[c.run_id].closed_at # None
    /\ \E k \in Indices(audit_events) :
          /\ audit_events[k].action
                = (CASE c.op = "mark_monthly_notified" -> "monthly_notify_sources"
                     [] c.op = "create_monthly_journal" -> "monthly_create_journal"
                     [] c.op = "close_daily_ops" -> "daily_close")
          /\ audit_events[k].entity_id
                = (IF c.op = "close_daily_ops" THEN c.run_id ELSE <<c.run_id, c.month>>)

\* C19: when two calls on the same scope key, each with its load and its save
\* as separate steps, have both returned successfully, the flags of both are
\* set in the stored document.
C19_NoLostUpdateSameKey ==
    \A t \in Threads, u \in Threads :
        (/\ BothReturned(t, u)
         /\ calls[t].run_id = calls[u].run_id
         /\ calls[t].month = calls[u].month)
            => /\ (calls[t].op = "mark_monthly_notified" =>
                      MonthStateOf(monthly_submissions[calls[t].run_id],
                                   calls[t].month).notified_to_source)
               /\ (calls[t].op = "create_monthly_journal" =>
                      MonthStateOf(monthly_submissions[calls[t].run_id],
                                   calls[t].month).journal_created)
               /\ (calls[t].op = "close_daily_ops" =>
                      daily_ops[calls[t].run_id].closed_at # None)

\* C19 witness: mark_monthly_notified and create_monthly_journal on the same
\* run x month both returned a value and the stored month is not notified.
C19_LostNotifiedState ==
    \E t \in Threads, u \in Threads :
        /\ BothReturned(t, u)
        /\ calls[t].op = "mark_monthly_notified"
        /\ calls[u].op = "create_monthly_journal"
        /\ calls[t].run_id = calls[u].run_id
        /\ calls[t].month = calls[u].month
        /\ MonthStateOf(monthly_submissions[calls[u].run_id], calls[u].month).journal_created
        /\ ~MonthStateOf(monthly_submissions[calls[t].run_id], calls[t].month).notified_to_source

\* The document before the first of two calls loaded it: the loaded copy with
\* the shorter log.
LoadedFirst(t, u) ==
    IF Len(calls[t].payload[1].audit_events) <= Len(calls[u].payload[1].audit_events)
    THEN calls[t].payload[1] ELSE calls[u].payload[1]

\* The document after the calls of t and then u, one after the other.
OneAfterTheOther(t, u) ==
    Mutated(calls[u].op, calls[u].run_id, calls[u].month,
            Mutated(calls[t].op, calls[t].run_id, calls[t].month, LoadedFirst(t, u)))

\* C20: when two calls on different scope keys (here different runs) have both
\* returned successfully, the stored document is the one of running them one
\* after the other in one of the two orders, so the flag change and the audit
\* entry of both are in it.
C20_DifferentKeysIndependent ==
    \A t \in Threads, u \in Threads :
        (BothReturned(t, u) /\ calls[t].run_id # calls[u].run_id)
            => /\ Document \in {OneAfterTheOther(t, u), OneAfterTheOther(u, t)}
               /\ ChangePresent(calls[t])
               /\ ChangePresent(calls[u])

\* C20 witness: close_daily_ops on two different runs both returned a value
\* and one of the runs is not closed in the stored document, nor is its
\* audit entry in the log.
C20_OverwrittenCloseState ==
    \E t \in Threads, u \in Threads :
        /\ BothReturned(t, u)
        /\ calls[t].op = "close_daily_ops"
        /\ calls[u].op = "close_daily_ops"
        /\ calls[t].run_id # calls[u].run_id
        /\ daily_ops[calls[t].run_id].closed_at = None
        /\ daily_ops[calls[u].run_id].closed_at # None
        /\ Len(audit_events) = Len(calls[u].payload[1].audit_events) + 1

\* C21: in every reachable state every run x month summary has total = good
\* + doubtful and doubtful = addressed + unresolved, its unresolved_doubtful is
\* the number of the month's doubtful decisions whose exception state is not
\* verified, approved or resolved, and the daily summary's counters are the
\* sums over the run's months.
C21_CountersFromFacts ==
    \A r \in DOMAIN runs :
        LET months == SummaryMonths(r)
            daily == DailySummary(r)
        IN /\ \A m \in months :
                 LET summary == get_monthly_submission(r, m)
                 IN /\ summary.total_transactions
                          = summary.good_transactions + summary.doubtful_transactions
                    /\ summary.doubtful_transactions
                          = summary.addressed_doubtful + summary.unresolved_doubtful
                    /\ summary.unresolved_doubtful = Cardinality(UnresolvedIn(r, m))
                    /\ summary.total_transactions = Cardinality(DecisionsIn(r, m))
           /\ daily.total_transactions
                 = SumOver(months, [m \in months |-> Cardinality(DecisionsIn(r, m))])
           /\ daily.good_transactions
                 = SumOver(months, [m \in months |-> Cardinality(GoodIn(r, m))])
           /\ daily.doubtful_transactions
                 = SumOver(months, [m \in months |-> Cardinality(DoubtfulIn(r, m))])
           /\ daily.unresolved_doubtful
                 = SumOver(months, [m \in months |-> Cardinality(UnresolvedIn(r, m))])
           /\ daily.addressed_doubtful
                 = daily.doubtful_transactions - daily.unresolved_doubtful

\* C21 witness: after an exception-state update that re-opened a case, a run
\* with doubtful transactions in two months, one addressed and one rejected.
C21_Witness ==
    /\ response = [op |-> "update_exception_state", status |-> OK]
    /\ \E r \in DOMAIN runs :
          /\ DailySummary(r).doubtful_transactions = 2
          /\ DailySummary(r).addressed_doubtful = 1
          /\ DailySummary(r).unresolved_doubtful = 1
          /\ \E k \in Indices(exceptions[r]) : exceptions[r][k].state = "rejected"
          /\ \E m \in SummaryMonths(r) :
                get_monthly_submission(r, m).unresolved_doubtful = 1

\* A step of a workflow handler on run r and month m, at any scope.
WorkflowStep(r, m) ==
    \/ \E ref \in OneRef, action \in ExceptionActions :
          update_exception_state(<<r, ref>>, action)
    \/ address_monthly_doubtful(r, m)
    \/ mark_monthly_notified(r, m)
    \/ create_monthly_journal(r, m)
    \/ submit_monthly_to_erp(r, m)
    \/ \E d \in BusinessDates : set_daily_business_date(r, d)
    \/ address_daily_doubtful(r)
    \/ notify_daily_ops(r)
    \/ close_daily_ops(r)
    \/ create_monthly_close_journal(m)
    \/ submit_monthly_close_to_erp(m)

\* C22: no step of a workflow handler changes a stored decision list, and a
\* step that changes one is the add_decisions of a running job.
C22_DecisionsImmutable ==
    [][/\ (\E r \in OneRun, m \in OneMonth : WorkflowStep(r, m))
            => decisions' = decisions
       /\ \A r \in RunIds :
            decisions'[r] # decisions[r]
                => (job[r] = "loading" /\ job'[r] = "decisions_saved")]_vars

\* C22 witness: an exception-state update answered on a run whose decision
\* list holds a doubtful decision, still doubtful after the case was approved.
C22_Witness ==
    /\ response = [op |-> "update_exception_state", status |-> OK]
    /\ \E r \in DOMAIN runs :
          /\ Len(decisions[r]) = 1
          /\ decisions[r][1].final_status = DOUBTFUL
          /\ Len(exceptions[r]) = 1
          /\ exceptions[r][1].state = "approved"

\* C30: a successful address_monthly_doubtful(r, m) sets to verified every
\* case of r whose reference belongs to m and whose state is not verified,
\* approved or resolved, and leaves every other case of r and every case of
\* another run as it was.
C30_AddressFrame ==
    [][Answers("address_monthly_doubtful") =>
         \A r \in RunIds, m \in TxnMonths :
            (address_monthly_doubtful(r, m) /\ response'.status = OK) =>
               /\ \A other \in RunIds \ {r} : exceptions'[other] = exceptions[other]
               /\ Len(exceptions'[r]) = Len(exceptions[r])
               /\ \A k \in Indices(exceptions[r]) :
                     exceptions'[r][k] =
                        IF /\ \E i \in DecisionsIn(r, m) :
                                 decisions[r][i].merchant_ref
                                    = exceptions[r][k].merchant_ref
                           /\ exceptions[r][k].state
                                 \notin {"verified", "approved", "resolved"}
                        THEN [exceptions[r][k] EXCEPT !.state = "verified"]
                        ELSE exceptions[r][k]]_vars

\* C30 witness: address_monthly_doubtful answered on a run with two cases in
\* two months, one now verified and one still open, while the other run has
\* an open case.
C30_Witness ==
    /\ response = [op |-> "address_monthly_doubtful", status |-> OK]
    /\ Len(exceptions["run-1"]) = 2
    /\ Len(decisions["run-1"]) = 2
    /\ \E k \in {1, 2} : exceptions["run-1"][k].state = "verified"
    /\ \E k \in {1, 2} : exceptions["run-1"][k].state = "open"
    /\ decisions["run-1"][1].transaction_month # decisions["run-1"][2].transaction_month
    /\ Len(exceptions["run-2"]) = 1
    /\ exceptions["run-2"][1].state = "open"

-----------------------------------------------------------------------------
\* Properties of the matching engine, on the result reconcile returned for the
\* frames in sources.

Returned == validation.status = OK

FrameRefs == {1, 2} \cup ConsistentRefs

\* Whether a source holds the reference, and the row reconcile looks up.
In(s, ref) == ref \in Keys(sources[s])

RowIn(s, ref) == Get(sources[s], ref)[1]

InAll(ref) == \A s \in Sources : In(s, ref)

InSome(ref) == \E s \in Sources : In(s, ref)

\* The positions of a reference in the returned decision list.
DecisionsOf(ref) ==
    {k \in DOMAIN validation.decisions : validation.decisions[k].merchant_ref = ref}

\* C23: whenever reconcile returns, every reference held by some source and
\* absent from another has a decision, and each decision of it is DOUBTFUL
\* with the single reason MISSING_IN_ONE_OR_MORE_SOURCES, no fuzzy score, no
\* date gap, and the fuzzy, three-way, backdate and FX flags false.
C23_MissingSourceDoubtful ==
    Returned =>
        \A ref \in FrameRefs :
            (InSome(ref) /\ ~InAll(ref)) =>
                /\ DecisionsOf(ref) # {}
                /\ \A k \in DecisionsOf(ref) :
                      LET d == validation.decisions[k]
                      IN /\ d.final_status = DOUBTFUL
                         /\ d.reason_codes = <<"MISSING_IN_ONE_OR_MORE_SOURCES">>
                         /\ d.fuzzy_score = JsonNone
                         /\ d.backdated_gap_days = JsonNone
                         /\ ~d.stage_results.fuzzy
                         /\ ~d.stage_results.three_way
                         /\ ~d.stage_results.backdated
                         /\ ~d.stage_results.fx_handled

\* C23, reached: reference 1 is held by the internal frame only and reference
\* 2 by every frame, and reconcile returned a doubtful and a good decision.
C23_Witness ==
    /\ Returned
    /\ In("internal", 1) /\ ~In("erp", 1) /\ ~In("psp", 1)
    /\ InAll(2)
    /\ validation.decisions[1].merchant_ref = 1
    /\ validation.decisions[1].final_status = DOUBTFUL
    /\ validation.decisions[2].final_status = GOOD

\* C24: whenever reconcile returns, the decision of a reference held by all
\* three sources is GOOD exactly when its fuzzy, three-way, backdate and FX
\* flags are all true, whatever its exact-hash flag.
C24_GoodIffFourStages ==
    Returned =>
        \A ref \in FrameRefs :
            InAll(ref) =>
                \A k \in DecisionsOf(ref) :
                    LET d == validation.decisions[k]
                    IN d.final_status = GOOD
                         <=> (/\ d.stage_results.fuzzy
                              /\ d.stage_results.three_way
                              /\ d.stage_results.backdated
                              /\ d.stage_results.fx_handled)

\* C24, reached: the three rows of reference 1 hash alike and differ in the
\* bank country, so the exact-hash flag is true and the decision DOUBTFUL.
C24_Witness ==
    /\ Returned
    /\ InAll(1)
    /\ RowIn("psp", 1).bank_country # RowIn("erp", 1).bank_country
    /\ validation.decisions[1].merchant_ref = 1
    /\ validation.decisions[1].stage_results.exact_hash
    /\ ~validation.decisions[1].stage_results.three_way
    /\ validation.decisions[1].final_status = DOUBTFUL

\* The three rows of a reference are equal in every field.
IdenticalRows(ref) ==
    /\ InAll(ref)
    /\ RowIn("internal", ref) = RowIn("erp", ref)
    /\ RowIn("erp", ref) = RowIn("psp", ref)

\* C25 as stated: whenever reconcile returns, a reference whose three rows are
\* present and identical in all fields has exact_hash true and is GOOD.
C25_IdenticalRowsGood ==
    Returned =>
        \A ref \in FrameRefs :
            IdenticalRows(ref) =>
                \A k \in DecisionsOf(ref) :
                    /\ validation.decisions[k].stage_results.exact_hash
                    /\ validation.decisions[k].final_status = GOOD

\* C25, amended: whenever reconcile returns, a reference whose three rows are
\* present and identical in all fields, each of the three amounts a number,
\* has exact_hash true and is GOOD.  (Identical rows whose amount did not
\* coerce hash alike and fail the amount check, NaN being unequal to itself.)
C25_IdenticalNumericRowsGood ==
    Returned =>
        \A ref \in FrameRefs :
            (/\ IdenticalRows(ref)
             /\ RowIn("internal", ref).gross_amount # NaN
             /\ RowIn("internal", ref).processing_fee # NaN
             /\ RowIn("internal", ref).net_payout # NaN) =>
                /\ DecisionsOf(ref) # {}
                /\ \A k \in DecisionsOf(ref) :
                      /\ validation.decisions[k].stage_results.exact_hash
                      /\ validation.decisions[k].final_status = GOOD

\* C25, reached: three identical rows in EUR without an FX rate, decided GOOD.
C25_Witness ==
    /\ Returned
    /\ IdenticalRows(1)
    /\ RowIn("internal", 1).currency = "EUR"
    /\ RowIn("internal", 1).fx_rate = NaN
    /\ validation.decisions[1].merchant_ref = 1
    /\ validation.decisions[1].stage_results.exact_hash
    /\ validation.decisions[1].final_status = GOOD

\* The pairwise score of the claim, in tenths: 0.5 for equal references, 0.2
\* for equal amounts, 0.1 each for equal normalised status, client id and
\* payment method.
ComponentScore(a, b) ==
    (IF a.merchant_ref = b.merchant_ref THEN 5 ELSE 0)
    + (IF /\ FloatEq(a.gross_amount, b.gross_amount)
          /\ FloatEq(a.processing_fee, b.processing_fee)
          /\ FloatEq(a.net_payout, b.net_payout) THEN 2 ELSE 0)
    + (IF _norm_status(a.status) = _norm_status(b.status) THEN 1 ELSE 0)
    + (IF a.client_id = b.client_id THEN 1 ELSE 0)
    + (IF a.payment_method = b.payment_method THEN 1 ELSE 0)

\* C26: whenever reconcile returns a decision whose exact-hash flag is false
\* for a reference held by all three sources, its fuzzy score is the least of
\* the three pairwise scores and its fuzzy flag is true exactly when each of
\* the three is at least 0.9.
C26_FuzzyIsMinOfPairs ==
    Returned =>
        \A ref \in FrameRefs :
            InAll(ref) =>
                \A k \in DecisionsOf(ref) :
                    LET d == validation.decisions[k]
                        ie == ComponentScore(RowIn("internal", ref), RowIn("erp", ref))
                        ip == ComponentScore(RowIn("internal", ref), RowIn("psp", ref))
                        ep == ComponentScore(RowIn("erp", ref), RowIn("psp", ref))
                    IN ~d.stage_results.exact_hash =>
                          /\ d.fuzzy_score = Json(Min3(ie, ip, ep))
                          /\ d.stage_results.fuzzy <=> (ie >= 9 /\ ip >= 9 /\ ep >= 9)

\* C26, reached: one pair scores 1.0 and the two others 0.8; the score is 0.8
\* and the fuzzy flag false.
C26_Witness ==
    /\ Returned
    /\ InAll(1)
    /\ validation.decisions[1].merchant_ref = 1
    /\ ~validation.decisions[1].stage_results.exact_hash
    /\ ComponentScore(RowIn("erp", 1), RowIn("psp", 1)) = 10
    /\ ComponentScore(RowIn("internal", 1), RowIn("erp", 1)) = 8
    /\ validation.decisions[1].fuzzy_score = Json(8)
    /\ ~validation.decisions[1].stage_results.fuzzy

\* The references held by at least one source.
UnionOfKeys == {ref \in FrameRefs : InSome(ref)}

\* C27: whenever reconcile returns, the decision list holds each reference of
\* the union of the three frames' keys once, in ascending order; each DOUBTFUL
\* decision has exactly one exception case, open and of the same run and
\* reference, a GOOD decision has none, and there are as many cases as
\* DOUBTFUL decisions.
C27_OneDecisionPerReference ==
    Returned =>
        LET ds == validation.decisions
            es == validation.exceptions
        IN /\ Len(ds) = Cardinality(UnionOfKeys)
           /\ {ds[k].merchant_ref : k \in DOMAIN ds} = UnionOfKeys
           /\ \A k \in DOMAIN ds, j \in DOMAIN ds :
                 k < j => ds[k].merchant_ref < ds[j].merchant_ref
           /\ \A k \in DOMAIN ds :
                 Cardinality({j \in DOMAIN es :
                                 /\ es[j].merchant_ref = ds[k].merchant_ref
                                 /\ es[j].run_id = ds[k].run_id
                                 /\ es[j].state = "open"})
                    = IF ds[k].final_status = DOUBTFUL THEN 1 ELSE 0
           /\ Len(es) = Cardinality({k \in DOMAIN ds : ds[k].final_status = DOUBTFUL})

\* C27, reached: six references, the rows listed in descending order, two
\* decisions DOUBTFUL and two exception cases.
C27_Witness ==
    /\ Returned
    /\ sources.erp[1].merchant_ref.key = 6
    /\ Len(validation.decisions) = 6
    /\ validation.decisions[1].final_status = DOUBTFUL
    /\ validation.decisions[2].final_status = DOUBTFUL
    /\ validation.decisions[3].final_status = GOOD
    /\ Len(validation.exceptions) = 2

\* A reference with a numeric or date cell that did not coerce.
Uncoerced(ref) ==
    \E s \in Sources :
        /\ In(s, ref)
        /\ \/ RowIn(s, ref).gross_amount = NaN
           \/ RowIn(s, ref).processing_fee = NaN
           \/ RowIn(s, ref).net_payout = NaN
           \/ RowIn(s, ref).transaction_date = NaT

\* C28: a call of reconcile returns, with a decision for every reference of
\* the frames, and the decision of a reference with a numeric or date cell
\* that did not coerce is DOUBTFUL with a reason.
C28_BadFieldDoubtfulNoRaise ==
    validation.status # "none" =>
        /\ Returned
        /\ \A ref \in UnionOfKeys :
              /\ DecisionsOf(ref) # {}
              /\ Uncoerced(ref) =>
                    \A k \in DecisionsOf(ref) :
                        /\ validation.decisions[k].final_status = DOUBTFUL
                        /\ validation.decisions[k].reason_codes # <<>>

\* C28, the state the claim excludes: reference 1 is held by all three
\* sources, its transaction date did not parse in one of them, and reconcile
\* raised ValueError with no decision for the five other references.
C28_RaisedOnUnparsedDate ==
    /\ validation.status = ValueError
    /\ InAll(1) /\ InAll(2)
    /\ RowIn("erp", 1).transaction_date = NaT
    /\ RowIn("internal", 1).transaction_date # NaT
    /\ validation.decisions = <<>>

\* The recipient a missing source calls for, from the frames.
Calls(recipient, ref) ==
    CASE recipient = "psp_provider" -> ~In("psp", ref)
      [] recipient = "internal_backoffice" -> ~In("internal", ref)
      [] recipient = "cashier_erp" -> ~In("erp", ref)
      [] recipient = "reconciliation_ops" -> InAll(ref)

\* The references of the month's doubtful decisions a recipient is alerted of.
AffectedRefs(recipient, month) ==
    {ref \in UnionOfKeys :
        /\ Calls(recipient, ref)
        /\ \E k \in DecisionsOf(ref) :
              /\ validation.decisions[k].final_status = DOUBTFUL
              /\ validation.decisions[k].transaction_month = month}

\* C29: for the decisions reconcile returned, the recipients of each doubtful
\* decision are psp_provider, internal_backoffice and cashier_erp for a
\* missing PSP, internal and ERP row, and reconciliation_ops alone when no row
\* is missing; the month's recipient list names each alerted recipient once,
\* with the count and the ascending list of its affected references, in
\* descending order of count.
C29_AlertRecipients ==
    Returned =>
        /\ \A k \in DOMAIN validation.decisions :
              LET d == validation.decisions[k]
                  named == _derive_alert_recipients(missing_sources(d))
              IN d.final_status = DOUBTFUL =>
                    \A r \in {"psp_provider", "internal_backoffice", "cashier_erp",
                              "reconciliation_ops"} :
                        InSeq(r, named) <=> Calls(r, d.merchant_ref)
        /\ \A month \in TxnMonths \cup {"unknown"} :
              LET list == alert_recipients(validation.decisions, month)
              IN /\ \A k \in DOMAIN list, j \in DOMAIN list :
                        k < j => /\ list[k].recipient_key # list[j].recipient_key
                                 /\ list[k].count >= list[j].count
                 /\ {list[k].recipient_key : k \in DOMAIN list}
                       = {r \in {"psp_provider", "internal_backoffice", "cashier_erp",
                                 "reconciliation_ops"} : AffectedRefs(r, month) # {}}
                 /\ \A k \in DOMAIN list :
                        LET refs == AffectedRefs(list[k].recipient_key, month)
                        IN /\ list[k].count = Cardinality(refs)
                           /\ {list[k].merchant_refs[j] : j \in DOMAIN list[k].merchant_refs} = refs
                           /\ Len(list[k].merchant_refs) = Cardinality(refs)
                           /\ \A i \in DOMAIN list[k].merchant_refs,
                                 j \in DOMAIN list[k].merchant_refs :
                                 i < j => list[k].merchant_refs[i] < list[k].merchant_refs[j]

\* C29, reached: reference 1 misses its internal and PSP rows and reference 2
\* its PSP row, both in March; psp_provider with two references is listed
\* before internal_backoffice with one.
C29_Witness ==
    /\ Returned
    /\ ~In("internal", 1) /\ ~In("psp", 1) /\ In("erp", 1)
    /\ ~In("psp", 2) /\ In("internal", 2) /\ In("erp", 2)
    /\ LET list == alert_recipients(validation.decisions, "2026-03")
       IN /\ Len(list) = 2
          /\ list[1] = [recipient_key |-> "psp_provider", count |-> 2,
                        merchant_refs |-> <<1, 2>>]
          /\ list[2] = [recipient_key |-> "internal_backoffice", count |-> 1,
                        merchant_refs |-> <<1>>]

\* The enumerated exception states of the specification.
EnumeratedStates == {"open", "verified", "approved", "resolved"}

\* C31: a call of update_exception_state on an existing case with a state
\* outside open, verified, approved and resolved answers with a validation error and leaves every
\* exception case as it was.
C31_UnknownStateRejected ==
    [][\A run_id \in OneRun, ref \in Refs, action \in ExceptionActions \ EnumeratedStates :
          (/\ \E i \in Indices(exceptions[run_id]) : exceptions[run_id][i].id = <<run_id, ref>>
           /\ update_exception_state(<<run_id, ref>>, action))
              => /\ response'.status = ValueError
                 /\ exceptions' = exceptions]_vars

\* C31, the state the claim excludes: the call returned a value and the case
\* is stored with the state rejected.
C31_RejectedStateStored ==
    /\ response = [op |-> "update_exception_state", status |-> OK]
    /\ job["run-1"] = "idle"
    /\ \E i \in Indices(exceptions["run-1"]) : exceptions["run-1"][i].state = "rejected"

\* The reason tokens in their fixed order, and the stage flag each reports.
ReasonOrder ==
    <<"EXACT_HASH_MISMATCH", "FUZZY_THRESHOLD_NOT_MET", "THREE_WAY_VALIDATION_FAILED",
      "BACKDATED_WINDOW_EXCEEDED", "FX_DATA_INSUFFICIENT">>

StagePassed(stage, token) ==
    CASE token = "EXACT_HASH_MISMATCH" -> stage.exact_hash
      [] token = "FUZZY_THRESHOLD_NOT_MET" -> stage.fuzzy
      [] token = "THREE_WAY_VALIDATION_FAILED" -> stage.three_way
      [] token = "BACKDATED_WINDOW_EXCEEDED" -> stage.backdated
      [] token = "FX_DATA_INSUFFICIENT" -> stage.fx_handled

\* C32: whenever reconcile returns, the reason codes of a reference held by
\* all three sources are the tokens of its failing stages, each once, in the
\* order exact hash, fuzzy, three-way, backdate, FX, and no other token.
C32_ReasonPerFailingStage ==
    Returned =>
        \A ref \in FrameRefs :
            InAll(ref) =>
                \A k \in DecisionsOf(ref) :
                    LET d == validation.decisions[k]
                    IN d.reason_codes =
                          SelectSeq(ReasonOrder, LAMBDA t : ~StagePassed(d.stage_results, t))

\* C32, reached: a reference whose hash, fuzzy and three-way stages fail and
\* whose backdate and FX stages pass has the three tokens in order.
C32_Witness ==
    /\ Returned
    /\ InAll(1)
    /\ validation.decisions[1].merchant_ref = 1
    /\ validation.decisions[1].stage_results.backdated
    /\ validation.decisions[1].stage_results.fx_handled
    /\ validation.decisions[1].reason_codes =
          <<"EXACT_HASH_MISMATCH", "FUZZY_THRESHOLD_NOT_MET", "THREE_WAY_VALIDATION_FAILED">>

\* C40: whenever reconcile returns, for a reference held by all three sources
\* a false FX flag comes with a false three-way flag, the token
\* FX_DATA_INSUFFICIENT comes with THREE_WAY_VALIDATION_FAILED, and the final
\* status is GOOD exactly when the fuzzy, three-way and backdate flags are
\* true: the FX stage decides nothing on its own.
C40_FxFailsOnlyWithThreeWay ==
    Returned =>
        \A ref \in FrameRefs :
            InAll(ref) =>
                \A k \in DecisionsOf(ref) :
                    LET d == validation.decisions[k]
                    IN /\ ~d.stage_results.fx_handled => ~d.stage_results.three_way
                       /\ InSeq("FX_DATA_INSUFFICIENT", d.reason_codes)
                             => InSeq("THREE_WAY_VALIDATION_FAILED", d.reason_codes)
                       /\ d.final_status = GOOD
                             <=> (/\ d.stage_results.fuzzy
                                  /\ d.stage_results.three_way
                                  /\ d.stage_results.backdated)

\* C40, reached: one row of reference 1 is in another currency and a rate is
\* missing; the FX and the three-way stage both fail.
C40_Witness ==
    /\ Returned
    /\ InAll(1)
    /\ RowIn("internal", 1).currency # RowIn("erp", 1).currency
    /\ \E s \in Sources : RowIn(s, 1).fx_rate = NaN
    /\ validation.decisions[1].merchant_ref = 1
    /\ ~validation.decisions[1].stage_results.fx_handled
    /\ ~validation.decisions[1].stage_results.three_way
    /\ validation.decisions[1].reason_codes =
          <<"EXACT_HASH_MISMATCH", "THREE_WAY_VALIDATION_FAILED", "FX_DATA_INSUFFICIENT">>

\* C33: in every state a run whose daily close_state is closed has no
\* unresolved doubtful transaction.
C33_ClosedRunStaysResolved ==
    \A r \in DOMAIN runs :
        daily_ops[r].closed_at # None =>
            (DailyState(r).close_state = "closed" => DailyUnresolved(r) = 0)

\* C33, the state the claim excludes: a run reconciled once and closed, whose
\* exception case was set to rejected after the close; the run is still
\* closed, has an unresolved doubtful transaction, and the month's batch built
\* from it is not ready for the ERP.
C33_ClosedRunUnresolvedState ==
    /\ executions = 1
    /\ "run-1" \in DOMAIN runs
    /\ job["run-1"] = "idle"
    /\ response = [op |-> "update_exception_state", status |-> OK]
    /\ daily_ops["run-1"].closed_at # None
    /\ DailyState("run-1").close_state = "closed"
    /\ DailyUnresolved("run-1") = 1
    /\ \E m \in BatchMonths :
          LET batch == get_monthly_close_batch(m)
          IN batch.source_run_count = 1 /\ ~batch.ready_for_erp

\* C34: a create_monthly_close_journal call on a batch whose next_action is
\* create_journal returns a value, and a submit_monthly_close_to_erp call on a
\* batch whose next_action is submit_to_erp returns a value.
C34_CloseActionAccepted ==
    [][\A m \in OneMonth :
          /\ (/\ Answers("create_monthly_close_journal")
              /\ m \in BatchMonths
              /\ get_monthly_close_batch(m).next_action = "create_journal"
              /\ create_monthly_close_journal(m))
                 => response'.status = OK
          /\ (/\ Answers("submit_monthly_close_to_erp")
              /\ m \in BatchMonths
              /\ get_monthly_close_batch(m).next_action = "submit_to_erp"
              /\ submit_monthly_close_to_erp(m))
                 => response'.status = OK]_vars

\* C34, the state the claim excludes: a ready batch of doubtful transactions
\* only still names create_journal after create_monthly_close_journal was
\* answered with a validation error.
C34_JournalRefusedState ==
    /\ response = [op |-> "create_monthly_close_journal", status |-> ValueError]
    /\ \A r \in RunIds : job[r] = "idle"
    /\ \E m \in BatchMonths :
          LET batch == get_monthly_close_batch(m)
          IN /\ batch.ready_for_erp
             /\ batch.good_transactions = 0
             /\ batch.next_action = "create_journal"

\* C35: a mark_monthly_notified, create_monthly_journal or submit_monthly_to_erp
\* call on a run x month whose next_action is notify_sources, create_journal or
\* submit_to_erp respectively returns a value.
C35_MonthlyActionAccepted ==
    [][\A b \in Buckets :
          /\ (/\ Answers("mark_monthly_notified")
              /\ get_monthly_submission(b[1], b[2]).next_action = "notify_sources"
              /\ mark_monthly_notified(b[1], b[2]))
                 => response'.status = OK
          /\ (/\ Answers("create_monthly_journal")
              /\ get_monthly_submission(b[1], b[2]).next_action = "create_journal"
              /\ create_monthly_journal(b[1], b[2]))
                 => response'.status = OK
          /\ (/\ Answers("submit_monthly_to_erp")
              /\ get_monthly_submission(b[1], b[2]).next_action = "submit_to_erp"
              /\ submit_monthly_to_erp(b[1], b[2]))
                 => response'.status = OK]_vars

\* C35, reached: a month of doubtful transactions only, addressed and
\* notified, named submit_to_erp with no journal, and submitted.
C35_Witness ==
    /\ response = [op |-> "submit_monthly_to_erp", status |-> OK]
    /\ \E b \in Buckets :
          LET summary == get_monthly_submission(b[1], b[2])
          IN /\ summary.good_transactions = 0
             /\ summary.doubtful_transactions > 0
             /\ summary.notified_to_source
             /\ ~summary.journal_created
             /\ summary.submitted_to_erp
             /\ summary.next_action = "completed"

\* C36: a step of a workflow handler that answers with NotFound or a validation
\* error leaves runs, decisions, exceptions, the month, daily and monthly close
\* states and the audit log as they were.
C36_RejectedCallWritesNothing ==
    [][\/ /\ runs' = runs
          /\ decisions' = decisions
          /\ exceptions' = exceptions
          /\ monthly_submissions' = monthly_submissions
          /\ daily_ops' = daily_ops
          /\ monthly_close' = monthly_close
          /\ audit_events' = audit_events
       \/ ~(/\ response'.status # OK
            /\ \E r \in OneRun, m \in OneMonth : WorkflowStep(r, m))]_vars

\* C36, reached: close_daily_ops refused on a run with an unresolved doubtful
\* transaction; the run is not closed and the log ends with the entries of
\* the job.
C36_Witness ==
    /\ response = [op |-> "close_daily_ops", status |-> ValueError]
    /\ "run-1" \in DOMAIN runs
    /\ job["run-1"] = "idle"
    /\ runs["run-1"].status = COMPLETED
    /\ DailyUnresolved("run-1") = 1
    /\ daily_ops["run-1"].closed_at = None
    /\ Len(audit_events) > 0
    /\ audit_events[Len(audit_events)].action # "daily_close"

\* C37: in every step, a run x month flag (notified_to_source,
\* journal_created, submitted_to_erp) that is set stays set, and a closed_at
\* that is set keeps its value.
C37_FlagsMonotone ==
    [][/\ \A r \in DOMAIN monthly_submissions : \A m \in DOMAIN monthly_submissions[r] :
            LET old == monthly_submissions[r][m]
                new == MonthStateOf(monthly_submissions'[r], m)
            IN /\ old.notified_to_source => new.notified_to_source
               /\ old.journal_created => new.journal_created
               /\ old.submitted_to_erp => new.submitted_to_erp
       /\ \A r \in DOMAIN daily_ops :
            daily_ops[r].closed_at # None => daily_ops'[r].closed_at = daily_ops[r].closed_at]_vars

\* C37, reached: the run closed, then the month's journal created and the
\* month submitted; closed_at and the journal flag are still set.
C37_Witness ==
    /\ response = [op |-> "submit_monthly_to_erp", status |-> OK]
    /\ "run-1" \in DOMAIN monthly_submissions
    /\ "2026-03" \in DOMAIN monthly_submissions["run-1"]
    /\ monthly_submissions["run-1"]["2026-03"].journal_created
    /\ monthly_submissions["run-1"]["2026-03"].submitted_to_erp
    /\ daily_ops["run-1"].closed_at # None

\* Every doubtful decision of the run has an exception case.
HasCases(r) ==
    \A i \in Indices(decisions[r]) :
        decisions[r][i].final_status = DOUBTFUL =>
            \E j \in Indices(exceptions[r]) :
                exceptions[r][j].merchant_ref = decisions[r][i].merchant_ref

\* The operations a daily next_action still asks for before the run is
\* closed: three from address_doubtful, two from send_notifications, one from
\* close_day, none when closed.
OperationsLeft(next_action) ==
    IF next_action = "closed" THEN 0
    ELSE IF next_action = "close_day" THEN 1
    ELSE IF next_action = "send_notifications" THEN 2
    ELSE IF next_action = "address_doubtful" THEN 3
    ELSE 4

\* The handler a daily next_action names.
NamedDailyOperation(next_action) ==
    IF next_action = "address_doubtful" THEN "address_daily_doubtful"
    ELSE IF next_action = "send_notifications" THEN "notify_daily_ops"
    ELSE IF next_action = "close_day" THEN "close_daily_ops"
    ELSE None

\* The step is a call of the daily handler named op on run r.
DailyOperationStep(op, r) ==
    IF op = "address_daily_doubtful" THEN address_daily_doubtful(r)
    ELSE IF op = "notify_daily_ops" THEN notify_daily_ops(r)
    ELSE op = "close_daily_ops" /\ close_daily_ops(r)

\* The five values of close_state and next_action a daily summary takes.
DailyStates ==
    {[close_state |-> "closed", next_action |-> "closed"],
     [close_state |-> "open", next_action |-> "wait_run_completion"],
     [close_state |-> "open", next_action |-> "address_doubtful"],
     [close_state |-> "open", next_action |-> "send_notifications"],
     [close_state |-> "ready_to_close", next_action |-> "close_day"]}

\* The daily states with fewer operations left than next_action leaves; with
\* none left the state is closed.
FewerLeft(next_action) ==
    {s \in DailyStates :
        /\ OperationsLeft(s.next_action) < OperationsLeft(next_action)
        /\ OperationsLeft(s.next_action) = 0 <=> s.close_state = "closed"}

\* C38: on a completed run whose doubtful decisions all have a case, a step of
\* the operation the daily next_action names (a handler call: no step of the
\* job, and the run not closed yet) is accepted, at most three operations
\* were left before it and fewer are left after it, and the run is still
\* completed with a case for every doubtful decision; none left is
\* close_state closed.  A chain of such steps closes the run within three.
C38_ClosedWithinThreeOperations ==
    [][\A r \in DOMAIN runs :
          LET before == DailyState(r)
          IN (/\ job' = job
              /\ response'.op \in {"address_daily_doubtful", "notify_daily_ops", "close_daily_ops"}
              /\ runs[r].status = COMPLETED
              /\ daily_ops[r].closed_at = None
              /\ response'.op = NamedDailyOperation(before.next_action)
              /\ HasCases(r)
              /\ DailyOperationStep(response'.op, r))
                => /\ response'.status = OK
                   /\ OperationsLeft(before.next_action) <= 3
                   /\ DailyState(r)' \in FewerLeft(before.next_action)
                   /\ runs'[r].status = COMPLETED
                   /\ HasCases(r)']_vars

\* C38, reached: a run with doubtful transactions in both months closed by
\* address_daily_doubtful, notify_daily_ops and close_daily_ops: every case
\* was verified by the address call, both months are notified.
C38_Witness ==
    /\ response = [op |-> "close_daily_ops", status |-> OK]
    /\ "run-1" \in DOMAIN runs
    /\ DailyState("run-1").close_state = "closed"
    /\ notifications_sent("run-1") = 2
    /\ Len(exceptions["run-1"]) = 2
    /\ \A j \in Indices(exceptions["run-1"]) : exceptions["run-1"][j].state = "verified"
    /\ \A m \in TxnMonths :
          /\ m \in DOMAIN monthly_submissions["run-1"]
          /\ monthly_submissions["run-1"][m].doubtful_addressed_at # None

\* What a batch was submitted with: its runs and its three counters.
BatchContents(m) ==
    LET batch == get_monthly_close_batch(m)
    IN [source_run_ids |-> batch.source_run_ids,
        total_transactions |-> batch.total_transactions,
        good_transactions |-> batch.good_transactions,
        doubtful_transactions |-> batch.doubtful_transactions]

\* C39 as claimed: a step from a state in which a monthly close batch is
\* submitted leaves the batch's source_run_ids and its total, good and doubtful
\* counters as they were (a revert ends the submission and changes none).
C39_SubmittedBatchFrozen ==
    [][\A m \in DOMAIN monthly_close :
          monthly_close[m].submitted_to_erp
              => BatchContents(m)' = BatchContents(m)]_vars

\* C39, the state the claim excludes, reached with each run reconciled once:
\* the last call closed a second run of the month, and the batch, submitted
\* before with one run, now reports two runs and two transactions.
C39_SubmittedBatchGrownState ==
    /\ response = [op |-> "close_daily_ops", status |-> OK]
    /\ executions = 2
    /\ \A r \in RunIds : job[r] = "idle"
    /\ \E m \in BatchMonths :
          LET batch == get_monthly_close_batch(m)
          IN /\ batch.submitted_to_erp
             /\ batch.source_run_count = 2
             /\ batch.total_transactions = 2

====
